---- MODULE Spec2Model ----
(***************************************************************************)
(* Model of intern/cycles/device/device_opencl.cpp.                        *)
(*                                                                         *)
(* Part 1 (specification Spec): the process-wide OpenCLCache and the       *)
(* device instances that use it.  Every thread is one device instance      *)
(* running its constructor (get_context / clCreateContext /                *)
(* store_context) and then load_kernels (get_program / compile /           *)
(* store_program) for the base program and, for a megakernel device, the   *)
(* megakernel program.                                                     *)
(*                                                                         *)
(* Part 2 (specification SpecSplit): the tile splitter of                  *)
(* OpenCLDeviceSplitKernel (get_max_render_feasible_tile_size,             *)
(* need_to_split_tile, get_split_tile_size, split_tiles, path_trace's      *)
(* global size).                                                           *)
(***************************************************************************)
EXTENDS Integers, Sequences, FiniteSets, TLC

(* ------------------------------ bounds --------------------------------- *)
NThreads == 2
NKeys == 2

Threads == 1..NThreads
Keys == 1..NKeys

(* Tile extents are taken next to the multiples of the local size, up to   *)
(* MaxTileExtent; the device memory leaves room for the multiples of       *)
(* FeasibleStep work items up to MaxFeasibleSteps * FeasibleStep; MaxTiles *)
(* tiles are acquired by a task                                            *)
MaxTileExtent == 130
FeasibleStep == 2016
MaxFeasibleSteps == 9
MaxTiles == 2
MaxOrigin == 7
(* a tile of the megakernel worker has up to MaxSamples samples *)
MaxSamples == 2

(* ------------------------ tile splitter: state ------------------------- *)
VARIABLES
    sp_pc,        \* position of the worker in thread_run (PATH_TRACE task)
    tile_size,    \* tile.tile_size, the user-set tile size of the render
    tiles_left,   \* tiles the task's acquire_tile will still hand out
    tile,         \* RenderTile tile of thread_run
    initialize_data_and_check_render_feasibility,
    need_to_split_tiles_further,
    feasible_global_work_size,
    max_render_feasible_tile_size,
    d_w, d_h,     \* locals of get_split_tile_size
    to_path_trace_render_tiles,
    tile_iter,
    global_size   \* global_size[0], global_size[1] of the last path_trace call

splitVars == <<sp_pc, tile_size, tiles_left, tile,
               initialize_data_and_check_render_feasibility,
               need_to_split_tiles_further, feasible_global_work_size,
               max_render_feasible_tile_size, d_w, d_h,
               to_path_trace_render_tiles, tile_iter, global_size>>

(* ------------------------ memory budget: state ------------------------- *)
VARIABLES
    total_allocatable_memory,      \* CL_DEVICE_MAX_MEM_ALLOC_SIZE of the device
    invariable_mem_allocated,      \* get_invariable_mem_allocated()
    tile_specific_mem_allocated,   \* get_tile_specific_mem_allocated(tile)
    scene_specific_mem_allocated,  \* get_scene_specific_mem_allocated(d_data)
    per_thread_memory_required     \* get_per_thread_memory()

memVars == <<total_allocatable_memory, invariable_mem_allocated,
             tile_specific_mem_allocated, scene_specific_mem_allocated,
             per_thread_memory_required>>

(* ----------------------- path_trace scheduler: state ------------------- *)
VARIABLES
    sc_pc,                 \* position of the worker in path_trace
    first_tile,            \* no path_trace call has completed yet
    PathIteration_times,   \* rounds enqueued before the next ray-state read
    numHostIntervention,   \* local of path_trace
    numNextPathIterTimes,  \* local of path_trace
    PathIter,              \* counter of the for loop over the rounds
    stage,                 \* the kernel of the round that is enqueued next
    activeRaysAvailable,   \* local of path_trace
    ray_state,             \* the device buffer ray_state
    hostRayStateArray,     \* the host copy read back by clEnqueueReadBuffer
    flips_per_round,       \* entries the kernels of one round turn inactive
    last_enqueued,         \* history: the kernel enqueued last by this call
    num_enqueued,          \* history: kernels enqueued by this call
    rounds_run,            \* history: complete rounds enqueued by this call
    start_times,           \* history: PathIteration_times at entry of the call
    dispatch_failed        \* history: the kernel whose clEnqueueNDRangeKernel
                           \* failed in this call, "" if none did

schedVars == <<sc_pc, first_tile, PathIteration_times, numHostIntervention,
               numNextPathIterTimes, PathIter, stage, activeRaysAvailable,
               ray_state, hostRayStateArray, flips_per_round, last_enqueued,
               num_enqueued, rounds_run, start_times, dispatch_failed>>

(* ------------------ render workers: tiles and the queue ---------------- *)
VARIABLES
    mk_pc,              \* position of the megakernel worker in thread_run
    mk_tiles_left,      \* tiles acquire_tile will still hand to that worker
    need_finish_queue,  \* task->need_finish_queue
    sample,             \* counter of the sample loop of the megakernel worker
    end_sample,         \* tile.start_sample + tile.num_samples
    num_acquired,       \* history: acquire_tile calls that returned a tile
    num_released,       \* history: release_tile calls
    cq_pending          \* path_trace calls enqueued on cqCommandQueue since
                        \* the last clFinish

mkVars == <<mk_pc, mk_tiles_left, need_finish_queue, sample, end_sample>>

workerVars == <<mkVars, num_acquired, num_released, cq_pending>>

(* ----------------------- the task and its samples ---------------------- *)
VARIABLES
    cancel,        \* task->get_cancel(): the render has been cancelled
    start_sample,  \* tile.start_sample of the tiles of the task
    num_samples,   \* tile.num_samples of the tiles of the task
    tile_sample,   \* tile.sample of the tile of the split-kernel worker
    cancelled_at   \* history: the tile held and the path_trace calls
                   \* enqueued for it when the task was cancelled

taskVars == <<cancel, start_sample, num_samples, cancelled_at>>

(* ------------------ the program builder and the error ----------------- *)
VARIABLES
    bd_pc,          \* position of the call of load_kernels / load_split_kernel
    bd_split,       \* the call is load_split_kernel (no Resource Cache slot)
    bd_key,         \* device hash, build options and source checksum of the
                    \* call: the name of its clbin file
    bd_exists,      \* path_exists(clbin) of the call
    bd_result,      \* value the call returned
    bd_trace,       \* history: load, compile and save steps of the call
    clbin_files,    \* the cache directory: contents of the file of each key
    saved_by,       \* history: whether save_binary wrote each file, in
                    \* this run or in an earlier one
    cpProgram,      \* *program of the call
    cached_program, \* ocl_dev_base_program slot of the device of the call
    error_msg,      \* Device::error_msg
    ndebug          \* the build defines NDEBUG

buildVars == <<bd_pc, bd_split, bd_key, bd_exists, bd_result, bd_trace,
               clbin_files, saved_by, cpProgram, cached_program,
               error_msg, ndebug>>

(* ------------------- the buffers of the split kernel ------------------- *)
VARIABLES
    allocated_elements,  \* num_global_elements the shared buffers and the
                         \* host ray-state mirror were allocated with
    task_no              \* history: number of the thread_run call

allocVars == <<allocated_elements, task_no>>

(* ------------------------- kernel_set_args ----------------------------- *)
VARIABLES
    ksa_pc,                \* position of the call of kernel_set_args
    ksa_args,              \* arg1, arg2, ...: TRUE for an argument that is
                           \* given, FALSE for a default-constructed one
    start_argument_index,  \* parameter of kernel_set_args
    current_arg_index,     \* local of kernel_set_args
    set_arg_calls,         \* history: the clSetKernelArg calls of the call
    ksa_return             \* value the call returned

argVars == <<ksa_pc, ksa_args, start_argument_index, current_arg_index,
             set_arg_calls, ksa_return>>

(* ----------------------- flush while in use ---------------------------- *)
VARIABLES
    flushed    \* the threads that refer to a Slot which flush has destroyed

flushVars == <<flushed>>

(* ------------------------ device lifetimes ----------------------------- *)
MaxLoads == 1

VARIABLES
    loads      \* calls of load_kernels on devices whose kernels were loaded

lifeVars == <<loads>>

(* ------------------------- split_tiles alone --------------------------- *)
VARIABLES
    st_pc,      \* position of the call of split_tiles
    st_rtile,   \* parameter rtile
    st_split,   \* parameter split_tile_size
    st_tiles    \* the vector the call returned

splitTilesVars == <<st_pc, st_rtile, st_split, st_tiles>>

(* ----------------------- artifact file names --------------------------- *)
VARIABLES
    nm_keys,    \* the two programs whose artifact file names are formed
    nm_clbin    \* nm_clbin[i]: the clbin name formed for program i, or << >>

nameVars == <<nm_keys, nm_clbin>>

(* ----------------------- device_opencl_create -------------------------- *)
VARIABLES
    doc_pc,       \* position of the call of device_opencl_create
    doc_detect,   \* what get_platform_and_devicetype returned and wrote
    force_split_kernel,  \* getenv("CYCLES_OPENCL_SPLIT_KERNEL_TEST") != NULL
    doc_device    \* the class of the device the call returned

createVars == <<doc_pc, doc_detect, force_split_kernel, doc_device>>

(* ------------- the megakernel worker and the cancel signal ------------- *)
VARIABLES
    mk_tile,        \* start_sample, num_samples and sample of the tile of the
                    \* megakernel worker
    mk_dispatched,  \* history: the samples path_trace was called with for
                    \* the tile
    mk_cancel_seen  \* history: the number of samples dispatched for the tile
                    \* when get_cancel() returned true, -1 before

megaTaskVars == <<mk_tile, mk_dispatched, mk_cancel_seen>>

(* -------------------- the closure count of the kernels ----------------- *)
MaxClosureRequest == 6

VARIABLES
    background,          \* OpenCLDeviceSplitKernel::background
    current_clos_max,    \* closure count the loaded kernels were built with
    cl_pc,               \* position of the worker: between tasks, on a tile
    budget_clos_max,     \* history: the closure count get_per_thread_memory
                         \* used for the task that runs
    allocated_clos_max   \* history: the closure count closure_sd and
                         \* closure_sd_DL_shadow were allocated with

closureVars == <<background, current_clos_max, cl_pc, budget_clos_max,
                 allocated_clos_max>>

(* state of the operations around the cache protocol *)
lateVars == <<flushVars, lifeVars, splitTilesVars, nameVars, createVars,
              megaTaskVars, closureVars>>

(* the helpers of the device *)
extraVars == <<argVars, lateVars>>

(* state outside the cache, the workers and path_trace *)
auxVars == <<taskVars, buildVars, allocVars, extraVars>>

(* what the cache operations leave alone *)
renderVars == <<splitVars, memVars, schedVars, workerVars, auxVars, tile_sample>>

(* --------------------------- cache: state ------------------------------ *)
VARIABLES
    key,          \* key[t]: the (cpPlatform, cdDevice) pair of device instance t
    devtype,      \* devtype[t]: "split" or "mega" (which subclass was constructed)
    pc,           \* pc[t]: position of thread t in constructor / load_kernels
    member,       \* member[t]: the T Slot::*member the thread is getting / storing
    cache,        \* OpenCLCache::cache, the map PlatformDevicePair -> Slot
    cache_lock,   \* OpenCLCache::cache_lock: 0 free, else the owning thread
    slot_locker,  \* slot_locker[t]: the caller's thread_scoped_lock owns a lock
    dev,          \* dev[t]: cxContext, cpProgram, path_trace_program of device t
    refcount,     \* OpenCL reference count of every resource handle
    created,      \* created[t]: the members for which t's own creation succeeded
    blocked_behind \* history: the creator whose slot lock t's current get waited for

cacheVars == <<key, devtype, pc, member, cache, cache_lock, slot_locker, dev,
               refcount, created, blocked_behind>>

(* Slot members, in the order a device asks for them. *)
Members == {"context", "ocl_dev_base_program", "ocl_dev_megakernel_program"}

MemberIndex(m) ==
    CASE m = "context" -> 1
      [] m = "ocl_dev_base_program" -> 2
      [] m = "ocl_dev_megakernel_program" -> 3

(* Resource handles: NULL is 0, the resource thread t creates for member m  *)
(* is a fresh, distinct non-zero handle.                                    *)
NULL == 0
NewHandle(t, m) == (t - 1) * Cardinality(Members) + MemberIndex(m)
Handles == 1..(NThreads * Cardinality(Members))

(* Slot(): mutex(NULL), context(NULL), both programs NULL.  The mutex field *)
(* is -1 while no mutex object exists, 0 when the mutex is unlocked, and    *)
(* the owning thread otherwise.                                             *)
NoMutex == 0 - 1
EmptySlot ==
    [mutex |-> NoMutex, context |-> NULL, ocl_dev_base_program |-> NULL,
     ocl_dev_megakernel_program |-> NULL]

(* Mutant of MapInsert: cache[key] = Slot(), which overwrites a present slot. *)
MapOverwrite(map, k) ==
    [x \in (DOMAIN map) \cup {k} |-> IF x = k THEN EmptySlot ELSE map[x]]

(* map::insert(value_type(key, Slot())): inserts only when the key is absent *)
MapInsert(map, k) ==
    [x \in (DOMAIN map) \cup {k} |-> IF x \in DOMAIN map THEN map[x] ELSE EmptySlot]

NullDevice ==
    [context |-> NULL, ocl_dev_base_program |-> NULL,
     ocl_dev_megakernel_program |-> NULL]

(* Device instances are interchangeable and so are keys: the instances are *)
(* numbered in the order of their keys, the keys in use are the first      *)
(* ones, and among instances of one key the megakernel devices come first. *)
DevRank(d) == IF d = "mega" THEN 0 ELSE 1

CacheInit ==
    /\ key \in [Threads -> Keys]
    /\ devtype \in [Threads -> {"split", "mega"}]
    /\ key[1] = 1
    /\ \A t \in Threads : t + 1 \in Threads =>
          /\ key[t] <= key[t + 1] /\ key[t + 1] <= key[t] + 1
          /\ key[t] = key[t + 1] => DevRank(devtype[t]) <= DevRank(devtype[t + 1])
    /\ pc = [t \in Threads |-> "get"]
    /\ member = [t \in Threads |-> "context"]
    /\ cache = [k \in {} |-> EmptySlot]
    /\ cache_lock = 0
    /\ slot_locker = [t \in Threads |-> FALSE]
    /\ dev = [t \in Threads |-> NullDevice]
    /\ refcount = [h \in Handles |-> 0]
    /\ created = [t \in Threads |-> {}]
    /\ blocked_behind = [t \in Threads |-> 0]

(* ---------------------- cache: get_something --------------------------- *)

(* thread_scoped_lock cache_lock(self.cache_lock): blocks until free *)
GetLockCache(t) ==
    /\ pc[t] = "get"
    /\ UNCHANGED renderVars
    /\ cache_lock = 0
    /\ cache_lock' = t
    /\ pc' = [pc EXCEPT ![t] = "get_insert"]
    /\ UNCHANGED <<key, devtype, member, cache, slot_locker, dev, refcount, created,
                   blocked_behind>>

(* The threads between a get that returned NULL and the release of the     *)
(* slot lock by store_something or by the end of the lock's scope.         *)
CreatorPcs == {"create", "store", "store_find", "store_set"}

(* Mutant of GetInsertUnlock: the cache lock is kept while going on to the *)
(* slot lock.                                                              *)
GetInsertKeepCacheLock(t) ==
    /\ pc[t] = "get_insert"
    /\ UNCHANGED renderVars
    /\ LET ins == [x \in (DOMAIN cache) \cup {key[t]} |->
                     IF x \in DOMAIN cache THEN cache[x] ELSE EmptySlot]
           slot == ins[key[t]]
       IN  cache' = [ins EXCEPT ![key[t]].mutex =
                        IF slot.mutex = NoMutex THEN 0 ELSE slot.mutex]
    /\ pc' = [pc EXCEPT ![t] = "get_lock_slot"]
    /\ UNCHANGED <<key, devtype, member, cache_lock, slot_locker, dev, refcount,
                   created, blocked_behind>>

(* insert the slot, create its mutex if it has none, cache_lock.unlock() *)
GetInsertUnlock(t) ==
    /\ pc[t] = "get_insert"
    /\ UNCHANGED renderVars
    /\ LET ins == MapInsert(cache, key[t])
           slot == ins[key[t]]
       IN  cache' = [ins EXCEPT ![key[t]].mutex =
                        IF slot.mutex = NoMutex THEN 0 ELSE slot.mutex]
    /\ cache_lock' = 0
    /\ pc' = [pc EXCEPT ![t] = "get_lock_slot"]
    /\ blocked_behind' =
          [blocked_behind EXCEPT ![t] =
             IF \E c \in Threads : key[c] = key[t] /\ pc[c] \in CreatorPcs
             THEN CHOOSE c \in Threads : key[c] = key[t] /\ pc[c] \in CreatorPcs
             ELSE 0]
    /\ UNCHANGED <<key, devtype, member, slot_locker, dev, refcount, created>>

(* Mutant of GetLockSlot: the slot mutex is taken without waiting for it. *)
GetLockSlotNoWait(t) ==
    /\ pc[t] = "get_lock_slot"
    /\ UNCHANGED renderVars
    /\ key[t] \in DOMAIN cache
    /\ cache' = [cache EXCEPT ![key[t]].mutex = t]
    /\ slot_locker' = [slot_locker EXCEPT ![t] = TRUE]
    /\ pc' = [pc EXCEPT ![t] = "get_check"]
    /\ UNCHANGED <<key, devtype, member, cache_lock, dev, refcount, created,
                   blocked_behind>>

(* slot_locker takes the slot's mutex: blocks until it is free *)
GetLockSlot(t) ==
    /\ pc[t] = "get_lock_slot"
    /\ UNCHANGED renderVars
    /\ key[t] \in DOMAIN cache
    /\ cache[key[t]].mutex = 0
    /\ cache' = [cache EXCEPT ![key[t]].mutex = t]
    /\ slot_locker' = [slot_locker EXCEPT ![t] = TRUE]
    /\ pc' = [pc EXCEPT ![t] = "get_check"]
    /\ UNCHANGED <<key, devtype, member, cache_lock, dev, refcount, created,
                   blocked_behind>>

(* Mutant of GetReturnNull: the slot lock is released on a miss too. *)
GetReturnNullUnlocked(t) ==
    /\ pc[t] = "get_check"
    /\ UNCHANGED renderVars
    /\ cache[key[t]][member[t]] = NULL
    /\ cache' = [cache EXCEPT ![key[t]].mutex = 0]
    /\ slot_locker' = [slot_locker EXCEPT ![t] = FALSE]
    /\ pc' = [pc EXCEPT ![t] = "create"]
    /\ UNCHANGED <<key, devtype, member, cache_lock, dev, refcount, created,
                   blocked_behind>>

(* if(slot.*member == NULL) return NULL, the caller keeping the slot lock *)
GetReturnNull(t) ==
    /\ pc[t] = "get_check"
    /\ UNCHANGED renderVars
    /\ cache[key[t]][member[t]] = NULL
    /\ pc' = [pc EXCEPT ![t] = "create"]
    /\ blocked_behind' =
          [u \in Threads |->
             IF u # t /\ key[u] = key[t] /\ pc[u] = "get_lock_slot"
             THEN t ELSE blocked_behind[u]]
    /\ UNCHANGED <<key, devtype, member, cache, cache_lock, slot_locker, dev,
                   refcount, created>>

(* Mutant of GetReturnCached: a hit returns with the slot lock still held. *)
GetReturnCachedKeepLock(t) ==
    /\ pc[t] = "get_check"
    /\ UNCHANGED renderVars
    /\ cache[key[t]][member[t]] # NULL
    /\ dev' = [dev EXCEPT ![t][member[t]] = cache[key[t]][member[t]]]
    /\ pc' = [pc EXCEPT ![t] = "get_retain"]
    /\ UNCHANGED <<key, devtype, member, cache, cache_lock, slot_locker, refcount,
                   created, blocked_behind>>

(* the item was already cached: slot_locker.unlock(); return slot.*member *)
GetReturnCached(t) ==
    /\ pc[t] = "get_check"
    /\ UNCHANGED renderVars
    /\ cache[key[t]][member[t]] # NULL
    /\ cache' = [cache EXCEPT ![key[t]].mutex = 0]
    /\ slot_locker' = [slot_locker EXCEPT ![t] = FALSE]
    /\ dev' = [dev EXCEPT ![t][member[t]] = cache[key[t]][member[t]]]
    /\ pc' = [pc EXCEPT ![t] = "get_retain"]
    /\ UNCHANGED <<key, devtype, member, cache_lock, refcount, created,
                   blocked_behind>>

(* What the device does once it holds member m: the constructor is followed *)
(* by OpenCLDeviceBase::load_kernels, and in a megakernel device by the     *)
(* megakernel part of OpenCLDeviceMegaKernel::load_kernels.                 *)
NextMember(t, m) ==
    CASE m = "context" -> "ocl_dev_base_program"
      [] m = "ocl_dev_base_program" ->
            IF devtype[t] = "mega" THEN "ocl_dev_megakernel_program" ELSE "none"
      [] m = "ocl_dev_megakernel_program" -> "none"

Advance(t) ==
    LET n == NextMember(t, member[t])
    IN  IF n = "none"
        THEN /\ pc' = [pc EXCEPT ![t] = "done"]
             /\ UNCHANGED member
        ELSE /\ pc' = [pc EXCEPT ![t] = "get"]
             /\ member' = [member EXCEPT ![t] = n]

(* get_context / get_program: clRetainContext / clRetainProgram on a hit *)
GetRetain(t) ==
    /\ pc[t] = "get_retain"
    /\ UNCHANGED renderVars
    /\ refcount' = [refcount EXCEPT ![dev[t][member[t]]] = @ + 1]
    /\ Advance(t)
    /\ blocked_behind' = [blocked_behind EXCEPT ![t] = 0]
    /\ UNCHANGED <<key, devtype, cache, cache_lock, slot_locker, dev, created>>

(* ------------- cache: the caller's creation of the resource ------------ *)

(* clCreateContext (constructor), or load_binary / compile_kernel and      *)
(* save_binary (load_kernels) succeed: the device holds a new resource     *)
(* with reference count 1 and goes on to store it.                         *)
CreateOk(t) ==
    /\ pc[t] = "create"
    /\ UNCHANGED renderVars
    /\ dev' = [dev EXCEPT ![t][member[t]] = NewHandle(t, member[t])]
    /\ refcount' = [refcount EXCEPT ![NewHandle(t, member[t])] = 1]
    /\ created' = [created EXCEPT ![t] = @ \cup {member[t]}]
    /\ pc' = [pc EXCEPT ![t] = "store"]
    /\ blocked_behind' = [blocked_behind EXCEPT ![t] = 0]
    /\ UNCHANGED <<key, devtype, member, cache, cache_lock, slot_locker>>

(* Mutant of ScopedLockDestructor: the early return leaves the mutex locked. *)
ScopedLockLeak(t) ==
    /\ UNCHANGED <<cache, slot_locker>>

(* The scope of the caller's thread_scoped_lock ends at the early return:  *)
(* its destructor unlocks the slot mutex it owns.                          *)
ScopedLockDestructor(t) ==
    /\ cache' = [cache EXCEPT ![key[t]].mutex = 0]
    /\ slot_locker' = [slot_locker EXCEPT ![t] = FALSE]

(* Creation fails and the caller returns without storing.  Either no       *)
(* resource exists (clCreateContext, opencl_version_check, compile_kernel  *)
(* failed), or, for a program, it was compiled but save_binary failed: the *)
(* device then keeps its private program, which is never stored.           *)
CreateFail(t) ==
    /\ pc[t] = "create"
    /\ UNCHANGED renderVars
    /\ \E compiled \in IF member[t] = "context" THEN {FALSE} ELSE BOOLEAN :
          IF compiled
          THEN /\ dev' = [dev EXCEPT ![t][member[t]] = NewHandle(t, member[t])]
               /\ refcount' = [refcount EXCEPT ![NewHandle(t, member[t])] = 1]
               /\ created' = [created EXCEPT ![t] = @ \cup {member[t]}]
          ELSE UNCHANGED <<dev, refcount, created>>
    /\ ScopedLockDestructor(t)
    /\ pc' = [pc EXCEPT ![t] = "failed"]
    /\ blocked_behind' = [blocked_behind EXCEPT ![t] = 0]
    /\ UNCHANGED <<key, devtype, member, cache_lock>>

(* --------------------- cache: store_something -------------------------- *)

(* thread_scoped_lock cache_lock(self.cache_lock): blocks until free *)
StoreLockCache(t) ==
    /\ pc[t] = "store"
    /\ UNCHANGED renderVars
    /\ cache_lock = 0
    /\ cache_lock' = t
    /\ pc' = [pc EXCEPT ![t] = "store_find"]
    /\ UNCHANGED <<key, devtype, member, cache, slot_locker, dev, refcount, created,
                   blocked_behind>>

(* i = self.cache.find(key); cache_lock.unlock() *)
StoreFindUnlock(t) ==
    /\ pc[t] = "store_find"
    /\ UNCHANGED renderVars
    /\ cache_lock' = 0
    /\ pc' = [pc EXCEPT ![t] = "store_set"]
    /\ UNCHANGED <<key, devtype, member, cache, slot_locker, dev, refcount, created,
                   blocked_behind>>

(* slot.*member = thing; slot_locker.unlock() *)
StoreSetUnlock(t) ==
    /\ pc[t] = "store_set"
    /\ UNCHANGED renderVars
    /\ key[t] \in DOMAIN cache
    /\ cache' = [cache EXCEPT ![key[t]][member[t]] = dev[t][member[t]],
                              ![key[t]].mutex = 0]
    /\ slot_locker' = [slot_locker EXCEPT ![t] = FALSE]
    /\ pc' = [pc EXCEPT ![t] = "store_retain"]
    /\ UNCHANGED <<key, devtype, member, cache_lock, dev, refcount, created,
                   blocked_behind>>

(* Mutant of StoreRetain: the store does not retain the resource. *)
StoreNoRetain(t) ==
    /\ pc[t] = "store_retain"
    /\ UNCHANGED renderVars
    /\ Advance(t)
    /\ UNCHANGED <<key, devtype, cache, cache_lock, slot_locker, dev, created,
                   blocked_behind, refcount>>

(* store_context / store_program: clRetainContext / clRetainProgram, the   *)
(* reference the caller will release when done with the resource           *)
StoreRetain(t) ==
    /\ pc[t] = "store_retain"
    /\ UNCHANGED renderVars
    /\ refcount' = [refcount EXCEPT ![dev[t][member[t]]] = @ + 1]
    /\ Advance(t)
    /\ UNCHANGED <<key, devtype, cache, cache_lock, slot_locker, dev, created,
                   blocked_behind>>

(* ----------------------------- cache: flush ---------------------------- *)

(* The handles flush releases: every non-NULL member of every slot. *)
CachedHandles ==
    {cache[k][m] : k \in DOMAIN cache, m \in Members} \ {NULL}

(* flush(): under the cache lock release every cached program and context  *)
(* and clear the map.                                                      *)
FlushBody ==
    /\ cache_lock = 0
    /\ UNCHANGED renderVars
    /\ refcount' = [h \in Handles |->
                      IF h \in CachedHandles THEN refcount[h] - 1 ELSE refcount[h]]
    /\ cache' = [k \in {} |-> EmptySlot]
    /\ UNCHANGED <<key, devtype, pc, member, cache_lock, slot_locker, dev, created,
                   blocked_behind>>

(* No code of this file calls flush; it is the process-wide discard run    *)
(* when every device instance has finished with the cache.                 *)
Quiescent == \A t \in Threads : pc[t] \in {"done", "failed"}

Flush ==
    /\ Quiescent
    /\ DOMAIN cache # {}
    /\ FlushBody

(* ----------------------- cache: specification -------------------------- *)
ThreadStep(t) ==
    \/ GetLockCache(t)
    \/ GetInsertUnlock(t)
    \/ GetLockSlot(t)
    \/ GetReturnNull(t)
    \/ GetReturnCached(t)
    \/ GetRetain(t)
    \/ CreateOk(t)
    \/ CreateFail(t)
    \/ StoreLockCache(t)
    \/ StoreFindUnlock(t)
    \/ StoreSetUnlock(t)
    \/ StoreRetain(t)

Next == (\E t \in Threads : ThreadStep(t)) \/ Flush

vars == <<cacheVars, splitVars, memVars, schedVars, workerVars, auxVars,
          tile_sample>>

(* what the steps of thread_run leave alone *)
aroundSplitVars == <<cacheVars, memVars, schedVars, mkVars, auxVars>>

(* what the steps of path_trace leave alone, besides the locals of         *)
(* thread_run                                                              *)
aroundSchedVars == <<cacheVars, memVars, workerVars, auxVars, tile_sample>>

(* what the steps of the megakernel worker leave alone *)
aroundMegaVars == <<cacheVars, splitVars, memVars, schedVars, auxVars,
                    tile_sample>>

PATH_ITER_INC_FACTOR == 8

(* RenderTile tile; before acquire_tile has filled it in *)
NoTile == [x |-> 0, y |-> 0, w |-> 1, h |-> 1, stride |-> 1, offset |-> 0]

(* The splitter of a device that runs no PATH_TRACE task. *)
SplitIdle ==
    /\ sp_pc = "idle"
    /\ tile_size = [x |-> 1, y |-> 1]
    /\ tiles_left = 0
    /\ tile = NoTile
    /\ initialize_data_and_check_render_feasibility = FALSE
    /\ need_to_split_tiles_further = FALSE
    /\ feasible_global_work_size = 0
    /\ max_render_feasible_tile_size = [x |-> 0, y |-> 0]
    /\ d_w = 0
    /\ d_h = 0
    /\ to_path_trace_render_tiles = << >>
    /\ tile_iter = 0
    /\ global_size = <<0, 0>>

(* The memory figures of a device that runs no PATH_TRACE task: nothing is *)
(* allocated and total_allocatable_memory has not been queried.            *)
MemIdle ==
    /\ total_allocatable_memory = 0
    /\ invariable_mem_allocated = 0
    /\ tile_specific_mem_allocated = 0
    /\ scene_specific_mem_allocated = 0
    /\ per_thread_memory_required = 1

(* The scheduler state the constructor leaves: no ray-state buffers yet,  *)
(* PathIteration_times = PATH_ITER_INC_FACTOR, first_tile = true.          *)
SchedConstructed ==
    /\ first_tile = TRUE
    /\ PathIteration_times = PATH_ITER_INC_FACTOR
    /\ numHostIntervention = 0
    /\ numNextPathIterTimes = 0
    /\ PathIter = 0
    /\ stage = 1
    /\ activeRaysAvailable = FALSE
    /\ ray_state = << >>
    /\ hostRayStateArray = << >>
    /\ flips_per_round = 0
    /\ last_enqueued = "none"
    /\ num_enqueued = 0
    /\ rounds_run = 0
    /\ start_times = 0
    /\ dispatch_failed = ""

(* path_trace is not running *)
SchedIdle == sc_pc = "idle" /\ SchedConstructed

(* no megakernel worker runs *)
MegaIdle ==
    /\ mk_pc = "idle"
    /\ mk_tiles_left = 0
    /\ need_finish_queue = FALSE
    /\ sample = 0
    /\ end_sample = 0

(* no tile has been acquired and nothing is enqueued *)
NoTileYet ==
    /\ num_acquired = 0
    /\ num_released = 0
    /\ cq_pending = 0

(* a task that is not cancelled; its tiles have one sample pass of         *)
(* MaxSamples samples                                                      *)
TaskRunning ==
    /\ cancel = FALSE
    /\ start_sample = 0
    /\ num_samples = MaxSamples
    /\ tile_sample = 0
    /\ cancelled_at = [tile |-> 0, pending |-> 0]

(* number of source/option/device combinations, i.e. of clbin file names *)
NBuildKeys == 2

BuildKeys == 1..NBuildKeys

NoProgram == [code |-> 0, built_from |-> "none"]

NoFile == [kind |-> "absent", binary_of |-> 0]

(* a file that is not a program binary of this device: truncated, foreign *)
Garbage == [kind |-> "garbage", binary_of |-> 0]

(* a device just constructed in a process just started *)
ProcessStarted ==
    /\ bd_pc = "idle"
    /\ bd_split = FALSE
    /\ bd_key = 1
    /\ bd_exists = FALSE
    /\ bd_result = "none"
    /\ bd_trace = <<>>
    /\ cpProgram = NoProgram
    /\ cached_program = NoProgram
    /\ error_msg = ""

(* no builder call is made; the cache directory is empty *)
BuildIdle ==
    /\ ProcessStarted
    /\ clbin_files = [k \in BuildKeys |-> NoFile]
    /\ saved_by = [k \in BuildKeys |-> "nobody"]
    /\ ndebug = TRUE

(* nothing is allocated; the first task runs *)
AllocIdle == allocated_elements = 0 /\ task_no = 1

(* kernel_set_args is not called *)
ArgsIdle ==
    /\ ksa_pc = "idle"
    /\ ksa_args = << >>
    /\ start_argument_index = 0
    /\ current_arg_index = 0
    /\ set_arg_calls = << >>
    /\ ksa_return = 0

(* no Slot has been destroyed under a thread *)
FlushIdle == flushed = {}

(* every thread has its first device instance, in its first load_kernels *)
LifeIdle == loads = 0

(* split_tiles is not called on its own *)
SplitTilesIdle ==
    /\ st_pc = "idle"
    /\ st_rtile = NoTile
    /\ st_split = [x |-> 0, y |-> 0]
    /\ st_tiles = << >>

(* no file name is formed *)
NamesIdle == nm_keys = << >> /\ nm_clbin = << >>

(* device_opencl_create is not called *)
CreateIdle ==
    /\ doc_pc = "idle"
    /\ doc_detect = [ok |-> FALSE, platform_name |-> "", device_type |-> "unset"]
    /\ force_split_kernel = FALSE
    /\ doc_device = "none"

(* the megakernel worker has no tile *)
MegaTaskIdle ==
    /\ mk_tile = [start_sample |-> 0, num_samples |-> 0, sample |-> 0]
    /\ mk_dispatched = << >>
    /\ mk_cancel_seen = 0 - 1

(* the constructor of the split-kernel device: no kernels are loaded *)
ClosureIdle ==
    /\ background = TRUE
    /\ current_clos_max = 0 - 1
    /\ cl_pc = "idle"
    /\ budget_clos_max = 0 - 1
    /\ allocated_clos_max = 0 - 1

LateIdle ==
    /\ FlushIdle /\ LifeIdle /\ SplitTilesIdle /\ NamesIdle /\ CreateIdle
    /\ MegaTaskIdle /\ ClosureIdle

(* the helpers of the device are not called *)
ExtraIdle == ArgsIdle /\ LateIdle

(* the state outside the cache, the workers and path_trace, untouched *)
AuxIdle == TaskRunning /\ BuildIdle /\ AllocIdle /\ ExtraIdle

Init ==
    /\ CacheInit /\ SplitIdle /\ MemIdle /\ SchedIdle /\ MegaIdle /\ NoTileYet
    /\ AuxIdle

Spec == Init /\ [][Next]_vars

(* ======================= claims on the Resource Cache ================== *)

(* t went through the whole get / create / store protocol for member m *)
Completed(t, m) ==
    /\ dev[t][m] # NULL
    /\ \/ MemberIndex(member[t]) > MemberIndex(m)
       \/ member[t] = m /\ pc[t] = "done"

(* t gave up at member m: it returned without storing *)
Abandoned(t, m) == pc[t] = "failed" /\ member[t] = m

(* c created member m itself and store_something has assigned it *)
Stored(c, m) ==
    /\ m \in created[c]
    /\ ~Abandoned(c, m)
    /\ \/ MemberIndex(member[c]) > MemberIndex(m)
       \/ member[c] = m /\ pc[c] \in {"store_retain", "done"}

(* C1: among the threads of one key that follow get -> (if NULL) create ->  *)
(* store for one member, at most one performs a creation; as soon as any   *)
(* of them has obtained the resource exactly one has created it, and every *)
(* thread that has obtained it holds that creator's handle.                *)
C1_CreateOnce ==
    \A k \in Keys, m \in Members :
       LET followers == {t \in Threads : key[t] = k /\ ~Abandoned(t, m)}
           creators == {t \in followers : m \in created[t]}
           holders == {t \in followers : Completed(t, m)}
       IN  /\ Cardinality(creators) <= 1
           /\ holders # {} =>
                 /\ Cardinality(creators) = 1
                 /\ \A t \in holders, c \in creators : dev[t][m] = dev[c][m]

(* every thread has the same key and has obtained the context *)
C1_Witness ==
    /\ NThreads >= 2
    /\ \A t \in Threads : key[t] = key[1] /\ Completed(t, "context")
    /\ Cardinality({t \in Threads : "context" \in created[t]}) = 1

(* C2: a thread whose get returned NULL owns the slot lock of its key until *)
(* store_something releases it, and no other thread of that key is in that *)
(* window at the same time.                                                *)
C2_CreatorExclusion ==
    \A t \in Threads :
       pc[t] \in CreatorPcs =>
          /\ slot_locker[t]
          /\ key[t] \in DOMAIN cache
          /\ cache[key[t]].mutex = t
          /\ \A u \in Threads \ {t} : key[u] = key[t] => pc[u] \notin CreatorPcs

(* one thread creates while another thread of the key waits for the slot lock *)
C2_Witness ==
    \E t, u \in Threads :
       /\ t # u /\ key[t] = key[u] /\ member[t] = member[u]
       /\ pc[t] = "create" /\ pc[u] = "get_lock_slot"

(* C3: a get that waited for the slot lock held by a creator, and proceeds *)
(* after that creator has stored the member it asks for, does not return   *)
(* NULL: it returns the creator's resource without holding the slot lock.  *)
C3_BlockedGetSeesStored ==
    \A u \in Threads :
       LET c == blocked_behind[u]
           m == member[u]
       IN  (c # 0 /\ Stored(c, m) /\ pc[u] \in {"get_check", "get_retain", "create"}) =>
              /\ pc[u] # "create"
              /\ pc[u] = "get_check" => cache[key[u]][m] = dev[c][m] /\ dev[c][m] # NULL
              /\ pc[u] = "get_retain" =>
                    /\ dev[u][m] = dev[c][m] /\ dev[u][m] # NULL
                    /\ ~slot_locker[u]
                    /\ cache[key[u]].mutex # u

(* the get of u waited behind creator c and has returned c's resource *)
C3_Witness ==
    \E u \in Threads :
       /\ blocked_behind[u] # 0
       /\ pc[u] = "get_retain"
       /\ Stored(blocked_behind[u], member[u])
       /\ dev[u][member[u]] = dev[blocked_behind[u]][member[u]]

(* The threads that have obtained (and retained) handle h as member m *)
Obtainers(h, m) == {t \in Threads : Completed(t, m) /\ dev[t][m] = h}

(* every thread of key k is through with member m, by obtaining or abandoning *)
AllThrough(k, m) ==
    \A t \in Threads : key[t] = k => Completed(t, m) \/ Abandoned(t, m)

(* C4 as stated: once the N callers of a key have each obtained the        *)
(* resource, its reference count is N.                                     *)
C4_RefcountIsN ==
    \A k \in DOMAIN cache, m \in Members :
       (cache[k][m] # NULL /\ AllThrough(k, m)) =>
          refcount[cache[k][m]] = Cardinality(Obtainers(cache[k][m], m))

(* C4 amended: a cached resource has one reference for each caller that    *)
(* has obtained it plus the reference of its creation, which the cache     *)
(* keeps: N + 1 after N callers.                                           *)
C4_RefcountIsNPlusOne ==
    \A k \in DOMAIN cache, m \in Members :
       cache[k][m] # NULL =>
          refcount[cache[k][m]] = Cardinality(Obtainers(cache[k][m], m)) + 1

(* all threads share one key and all have obtained the cached context *)
C4_Witness ==
    /\ NThreads >= 2
    /\ key[1] \in DOMAIN cache
    /\ cache[key[1]].context # NULL
    /\ Obtainers(cache[key[1]].context, "context") = Threads
    /\ refcount[cache[key[1]].context] = NThreads + 1

(* C5: when a creator gives up, the member it was creating is still NULL   *)
(* and the slot mutex is unlocked; a get that finds the member NULL goes   *)
(* on to create it, holding the slot lock.                                 *)
C5_FailureLeavesSlotAbsent ==
    [][\A t \in Threads :
         /\ (pc[t] = "create" /\ pc'[t] = "failed") =>
               /\ key[t] \in DOMAIN cache'
               /\ cache'[key[t]][member[t]] = NULL
               /\ cache'[key[t]].mutex = 0
               /\ ~slot_locker'[t]
         /\ (pc[t] = "get_check" /\ pc'[t] # "get_check"
               /\ cache[key[t]][member[t]] = NULL) =>
               /\ pc'[t] = "create"
               /\ slot_locker'[t]
               /\ cache'[key[t]].mutex = t]_vars

(* after t gave up on a member, another thread of the key is creating it *)
C5_Witness ==
    \E t, u \in Threads :
       /\ t # u /\ key[t] = key[u]
       /\ Abandoned(t, member[u])
       /\ pc[u] = "create"
       /\ slot_locker[u]

C7_CacheLockShortLived ==
    /\ cache_lock # 0 => pc[cache_lock] \in {"get_insert", "store_find"}
    /\ \A t \in Threads :
          pc[t] = "create" =>
             /\ cache_lock # t
             /\ \A k \in DOMAIN cache : k # key[t] => cache[k].mutex # t

(* t creates for one key while u, of another key, is inside its own get *)
C7_Witness ==
    \E t, u \in Threads :
       /\ key[t] # key[u]
       /\ pc[t] = "create"
       /\ pc[u] = "get_insert"
       /\ cache_lock = u

(* C8 as stated: while t creates one member of a slot, a get of another    *)
(* member of the same slot is not blocked.                                 *)
C8_OtherMemberNotBlocked ==
    \A t, u \in Threads :
       (/\ key[t] = key[u] /\ member[t] # member[u]
        /\ pc[t] = "create" /\ pc[u] = "get_lock_slot") => ENABLED GetLockSlot(u)

(* C8 amended: a slot has one mutex for its three members: while a thread  *)
(* is between a get that returned NULL and the release of the slot lock,   *)
(* every get on that slot, for the same or another member, is blocked.     *)
C8_OneLockPerSlot ==
    \A t, u \in Threads :
       (/\ t # u /\ key[t] = key[u]
        /\ pc[t] \in CreatorPcs /\ pc[u] = "get_lock_slot") => ~ENABLED GetLockSlot(u)

(* t compiles the base program while u waits to get the context of the slot *)
C8_Witness ==
    \E t, u \in Threads :
       /\ key[t] = key[u]
       /\ pc[t] = "create" /\ member[t] = "ocl_dev_base_program"
       /\ pc[u] = "get_lock_slot" /\ member[u] = "context"

(* ============================ tile splitter ============================ *)

SPLIT_KERNEL_LOCAL_SIZE_X == 64
SPLIT_KERNEL_LOCAL_SIZE_Y == 1

(* C integer division: the quotient is truncated toward zero *)
CDiv(a, b) == IF a >= 0 THEN a \div b ELSE 0 - ((0 - a) \div b)

(* (((d - 1) / local_size) + 1) * local_size *)
CeilToLocalSize(d, local_size) == (CDiv(d - 1, local_size) + 1) * local_size

(* (d / local_size) * local_size *)
FloorToLocalSize(d, local_size) == CDiv(d, local_size) * local_size

(* (int)sqrt(n): the largest r with r * r <= n, found by bisection *)
RECURSIVE SqrtBetween(_, _, _)
SqrtBetween(n, lo, hi) ==
    IF lo >= hi THEN lo
    ELSE LET mid == (lo + hi + 1) \div 2
         IN  IF mid * mid <= n THEN SqrtBetween(n, mid, hi)
                               ELSE SqrtBetween(n, lo, mid - 1)

(* the root of a size_t of the model is below 2^15 *)
IntSqrt(n) == SqrtBetween(n, 0, IF n < 2^15 THEN n ELSE 2^15)

(* Mutant of get_max_render_feasible_tile_size: the ceil round-off is     *)
(* returned without comparing it with the feasible work size.              *)
get_max_render_feasible_tile_size_ceil(feasible) ==
    [x |-> CeilToLocalSize(IntSqrt(feasible), SPLIT_KERNEL_LOCAL_SIZE_X),
     y |-> CeilToLocalSize(IntSqrt(feasible), SPLIT_KERNEL_LOCAL_SIZE_Y)]

(* get_max_render_feasible_tile_size(feasible_global_work_size) *)
get_max_render_feasible_tile_size(feasible) ==
    LET square_root_val == IntSqrt(feasible)
        ceil_size == [x |-> CeilToLocalSize(square_root_val, SPLIT_KERNEL_LOCAL_SIZE_X),
                      y |-> CeilToLocalSize(square_root_val, SPLIT_KERNEL_LOCAL_SIZE_Y)]
        floor_size == [x |-> FloorToLocalSize(square_root_val, SPLIT_KERNEL_LOCAL_SIZE_X),
                       y |-> FloorToLocalSize(square_root_val, SPLIT_KERNEL_LOCAL_SIZE_Y)]
    IN  IF ceil_size.x * ceil_size.y <= feasible THEN ceil_size ELSE floor_size

(* ---------------------------- memory budget --------------------------- *)

DATA_ALLOCATION_MEM_FACTOR == 5000000

(* size_t arithmetic wraps around.  The model keeps 30 bits of it, the     *)
(* widest modulus whose sums and products stay within the integers of the  *)
(* model checker; every memory figure of the model is below it.            *)
SizeTModulus == 2^30

(* a - b in size_t *)
SizeTMinus(a, b) == (a - b) % SizeTModulus

(* Mutant of get_feasible_global_work_size: the safety margin is not       *)
(* subtracted.                                                             *)
get_feasible_global_work_size_no_margin(total, invariable, tile_specific, scene_specific, per_thread) ==
    LET available_memory ==
           SizeTMinus(SizeTMinus(SizeTMinus(total, invariable), tile_specific),
                      scene_specific)
    IN  available_memory \div per_thread

(* get_feasible_global_work_size(rtile, d_data) *)
get_feasible_global_work_size(total, invariable, tile_specific, scene_specific, per_thread) ==
    LET available_memory ==
           SizeTMinus(SizeTMinus(SizeTMinus(SizeTMinus(total, invariable),
                                            tile_specific),
                                 scene_specific),
                      DATA_ALLOCATION_MEM_FACTOR)
    IN  available_memory \div per_thread

(* need_to_split_tile(d_w, d_h, max_render_feasible_tile_size) *)
need_to_split_tile(w, h, max_size) ==
    CeilToLocalSize(w, SPLIT_KERNEL_LOCAL_SIZE_X)
       * CeilToLocalSize(h, SPLIT_KERNEL_LOCAL_SIZE_Y) > max_size.x * max_size.y

(* Mutant of SplitTileDim: a border sub-tile gets the full split size. *)
SplitTileDimNoBorder(extent, iter, num, split) == split

(* width / height of sub-tile iter of num along one axis: the last one is  *)
(* the border tile and gets the remainder                                  *)
SplitTileDim(extent, iter, num, split) ==
    IF iter = num - 1 THEN extent - iter * split ELSE split

(* Mutant of split_tiles: the sub-tiles are stored column by column. *)
split_tiles_column_major(rtile, split) ==
    LET num_tiles_x == CDiv(rtile.w - 1, split.x) + 1
        num_tiles_y == CDiv(rtile.h - 1, split.y) + 1
        offset_index == rtile.offset + (rtile.x + rtile.y * rtile.stride)
        offset_x == offset_index % rtile.stride
        offset_y == offset_index \div rtile.stride
    IN  [i \in 1..(num_tiles_x * num_tiles_y) |->
           LET tile_iter_x == (i - 1) \div num_tiles_y
               tile_iter_y == (i - 1) % num_tiles_y
               sub_w == SplitTileDim(rtile.w, tile_iter_x, num_tiles_x, split.x)
           IN  [x |-> rtile.x + tile_iter_x * split.x,
                y |-> rtile.y + tile_iter_y * split.y,
                w |-> sub_w,
                h |-> SplitTileDim(rtile.h, tile_iter_y, num_tiles_y, split.y),
                stride |-> sub_w,
                offset |-> rtile.offset,
                start_sample |-> rtile.start_sample,
                num_samples |-> rtile.num_samples,
                sample |-> rtile.sample,
                resolution |-> rtile.resolution,
                tile_size |-> rtile.tile_size,
                buffers |-> rtile.buffers,
                buffer |-> rtile.buffer,
                rng_state |-> rtile.rng_state,
                rng_state_offset_x |-> offset_x + tile_iter_x * split.x,
                rng_state_offset_y |-> offset_y + tile_iter_y * split.y,
                buffer_offset_x |-> offset_x + tile_iter_x * split.x,
                buffer_offset_y |-> offset_y + tile_iter_y * split.y,
                buffer_rng_state_stride |-> rtile.stride]]

(* split_tiles(rtile, split_tile_size): the vector of sub-tiles, row by row *)
split_tiles(rtile, split) ==
    LET num_tiles_x == CDiv(rtile.w - 1, split.x) + 1
        num_tiles_y == CDiv(rtile.h - 1, split.y) + 1
        offset_index == rtile.offset + (rtile.x + rtile.y * rtile.stride)
        offset_x == offset_index % rtile.stride
        offset_y == offset_index \div rtile.stride
    IN  [i \in 1..(num_tiles_x * num_tiles_y) |->
           LET tile_iter_x == (i - 1) % num_tiles_x
               tile_iter_y == (i - 1) \div num_tiles_x
               sub_w == SplitTileDim(rtile.w, tile_iter_x, num_tiles_x, split.x)
           IN  [x |-> rtile.x + tile_iter_x * split.x,
                y |-> rtile.y + tile_iter_y * split.y,
                w |-> sub_w,
                h |-> SplitTileDim(rtile.h, tile_iter_y, num_tiles_y, split.y),
                stride |-> sub_w,
                offset |-> rtile.offset,
                start_sample |-> rtile.start_sample,
                num_samples |-> rtile.num_samples,
                sample |-> rtile.sample,
                resolution |-> rtile.resolution,
                tile_size |-> rtile.tile_size,
                buffers |-> rtile.buffers,
                buffer |-> rtile.buffer,
                rng_state |-> rtile.rng_state,
                rng_state_offset_x |-> offset_x + tile_iter_x * split.x,
                rng_state_offset_y |-> offset_y + tile_iter_y * split.y,
                buffer_offset_x |-> offset_x + tile_iter_x * split.x,
                buffer_offset_y |-> offset_y + tile_iter_y * split.y,
                buffer_rng_state_stride |-> rtile.stride]]

(* path_trace under __WORK_STEALING__: the global work size of a tile *)
PathTraceGlobalSize(rtile) ==
    <<CeilToLocalSize(rtile.w, SPLIT_KERNEL_LOCAL_SIZE_X),
      CeilToLocalSize(rtile.h, SPLIT_KERNEL_LOCAL_SIZE_Y)>>

(* ----------------------- tile splitter: inputs ------------------------- *)
TileExtents ==
    {e \in 1..MaxTileExtent : (e % SPLIT_KERNEL_LOCAL_SIZE_X) \in {0, 1, 2}}

(* The memory figures of the device and the scene (what the allocation    *)
(* getters return), and the totals that leave room for 0, FeasibleStep, ... *)
(* work items, that fall one byte short of the allocations, and two totals *)
(* of a small device and of a device with room for 6000 work items.        *)
MemoryFigures ==
    [invariable : {100000}, tile_specific : {50000},
     scene_specific : {200000}, per_thread : {100}]

TotalMemories(f) ==
    LET allocated == f.invariable + f.tile_specific + f.scene_specific
                        + DATA_ALLOCATION_MEM_FACTOR
    IN  {allocated + i * FeasibleStep * f.per_thread : i \in 0..MaxFeasibleSteps}
           \cup {allocated - 1, 1000000, 5950000}

MemInit ==
    \E f \in MemoryFigures :
       /\ invariable_mem_allocated = f.invariable
       /\ tile_specific_mem_allocated = f.tile_specific
       /\ scene_specific_mem_allocated = f.scene_specific
       /\ per_thread_memory_required = f.per_thread
       /\ total_allocatable_memory \in TotalMemories(f)

Origins == {<<0, 0>>, <<MaxOrigin, 2 * MaxOrigin>>}

SplitInit ==
    /\ sp_pc = "acquire"
    /\ tile_size \in [x : TileExtents, y : TileExtents]
    /\ tiles_left = MaxTiles
    /\ tile = NoTile
    /\ initialize_data_and_check_render_feasibility = FALSE
    /\ need_to_split_tiles_further = FALSE
    /\ feasible_global_work_size = 0
    /\ max_render_feasible_tile_size = [x |-> 0, y |-> 0]
    /\ d_w = 0
    /\ d_h = 0
    /\ to_path_trace_render_tiles = << >>
    /\ tile_iter = 0
    /\ global_size = <<0, 0>>

(* ----------------------- tile splitter: thread_run --------------------- *)

(* task->acquire_tile hands out a tile of the render: at most the user-set *)
(* tile size, somewhere in the frame buffer.  On the first tile the        *)
(* feasibility data is initialised; then the worker enters                 *)
(* get_split_tile_size or the no-split branch.                             *)
AcquireTile ==
    /\ sp_pc = "acquire"
    /\ tiles_left > 0
    /\ UNCHANGED aroundSplitVars
    /\ tile_sample' = start_sample
    /\ num_acquired' = num_acquired + 1
    /\ UNCHANGED <<num_released, cq_pending>>
    /\ \E w \in {e \in TileExtents : e <= tile_size.x},
          h \in {e \in TileExtents : e <= tile_size.y},
          o \in Origins :
          LET t == [x |-> o[1], y |-> o[2], w |-> w, h |-> h,
                    stride |-> o[1] + w, offset |-> 0,
                    start_sample |-> start_sample, num_samples |-> num_samples,
                    sample |-> start_sample, resolution |-> 1,
                    tile_size |-> tile_size, buffers |-> "buffers",
                    buffer |-> "buffer", rng_state |-> "rng_state"]
              first == ~initialize_data_and_check_render_feasibility
              fgws == IF first
                      THEN get_feasible_global_work_size(
                              total_allocatable_memory,
                              invariable_mem_allocated,
                              tile_specific_mem_allocated,
                              scene_specific_mem_allocated,
                              per_thread_memory_required)
                      ELSE feasible_global_work_size
              max_size == IF first THEN get_max_render_feasible_tile_size(fgws)
                          ELSE max_render_feasible_tile_size
              split == IF first
                       THEN need_to_split_tile(tile_size.x, tile_size.y, max_size)
                       ELSE need_to_split_tiles_further
          IN  /\ tile' = t
              /\ feasible_global_work_size' = fgws
              /\ need_to_split_tiles_further' = split
              /\ initialize_data_and_check_render_feasibility' = TRUE
              /\ IF split
                 THEN /\ max_render_feasible_tile_size' = max_size
                      /\ d_w' = CeilToLocalSize(w, SPLIT_KERNEL_LOCAL_SIZE_X)
                      /\ d_h' = CeilToLocalSize(h, SPLIT_KERNEL_LOCAL_SIZE_Y)
                      /\ sp_pc' = "get_split_tile_size"
                 ELSE /\ max_render_feasible_tile_size' =
                            [x |-> CeilToLocalSize(tile_size.x, SPLIT_KERNEL_LOCAL_SIZE_X),
                             y |-> CeilToLocalSize(tile_size.y, SPLIT_KERNEL_LOCAL_SIZE_Y)]
                      /\ UNCHANGED <<d_w, d_h>>
                      /\ sp_pc' = "path_trace_whole"
    /\ tiles_left' = tiles_left - 1
    /\ UNCHANGED <<tile_size, to_path_trace_render_tiles, tile_iter, global_size>>

(* acquire_tile returns false: the task is done *)
AcquireNone ==
    /\ sp_pc = "acquire"
    /\ sp_pc' = "done"
    /\ UNCHANGED aroundSplitVars
    /\ UNCHANGED tile_sample
    /\ UNCHANGED <<num_acquired, num_released, cq_pending>>
    /\ UNCHANGED <<tile_size, tiles_left, tile,
                   initialize_data_and_check_render_feasibility,
                   need_to_split_tiles_further, feasible_global_work_size,
                   max_render_feasible_tile_size, d_w, d_h,
                   to_path_trace_render_tiles, tile_iter, global_size>>

(* int num_global_threads of get_split_tile_size *)
num_global_threads ==
    max_render_feasible_tile_size.x * max_render_feasible_tile_size.y

(* one iteration of the while loop of get_split_tile_size, with the height *)
(* halved when the dimensions are equal                                    *)
SplitLoopHalveHeightOnTie ==
    /\ sp_pc = "get_split_tile_size"
    /\ d_w * d_h > num_global_threads
    /\ UNCHANGED aroundSplitVars
    /\ UNCHANGED tile_sample
    /\ UNCHANGED <<num_acquired, num_released, cq_pending>>
    /\ IF d_w > d_h
       THEN /\ d_w' = CeilToLocalSize(CDiv(d_w, 2), SPLIT_KERNEL_LOCAL_SIZE_X)
            /\ UNCHANGED d_h
       ELSE /\ d_h' = CeilToLocalSize(CDiv(d_h, 2), SPLIT_KERNEL_LOCAL_SIZE_Y)
            /\ UNCHANGED d_w
    /\ UNCHANGED <<sp_pc, tile_size, tiles_left, tile,
                   initialize_data_and_check_render_feasibility,
                   need_to_split_tiles_further, feasible_global_work_size,
                   max_render_feasible_tile_size,
                   to_path_trace_render_tiles, tile_iter, global_size>>

(* one iteration of the while loop of get_split_tile_size: halve the longer *)
(* dimension and round it up to the local size again                       *)
SplitLoopHalve ==
    /\ sp_pc = "get_split_tile_size"
    /\ d_w * d_h > num_global_threads
    /\ UNCHANGED aroundSplitVars
    /\ UNCHANGED tile_sample
    /\ UNCHANGED <<num_acquired, num_released, cq_pending>>
    /\ IF d_w >= d_h
       THEN /\ d_w' = CeilToLocalSize(CDiv(d_w, 2), SPLIT_KERNEL_LOCAL_SIZE_X)
            /\ UNCHANGED d_h
       ELSE /\ d_h' = CeilToLocalSize(CDiv(d_h, 2), SPLIT_KERNEL_LOCAL_SIZE_Y)
            /\ UNCHANGED d_w
    /\ UNCHANGED <<sp_pc, tile_size, tiles_left, tile,
                   initialize_data_and_check_render_feasibility,
                   need_to_split_tiles_further, feasible_global_work_size,
                   max_render_feasible_tile_size,
                   to_path_trace_render_tiles, tile_iter, global_size>>

(* the loop ends: split_tile_size = (d_w, d_h), and split_tiles is called *)
SplitLoopExit ==
    /\ sp_pc = "get_split_tile_size"
    /\ ~(d_w * d_h > num_global_threads)
    /\ UNCHANGED aroundSplitVars
    /\ UNCHANGED tile_sample
    /\ UNCHANGED <<num_acquired, num_released, cq_pending>>
    /\ to_path_trace_render_tiles' = split_tiles(tile, [x |-> d_w, y |-> d_h])
    /\ tile_iter' = 0
    /\ sp_pc' = "path_trace"
    /\ UNCHANGED <<tile_size, tiles_left, tile,
                   initialize_data_and_check_render_feasibility,
                   need_to_split_tiles_further, feasible_global_work_size,
                   max_render_feasible_tile_size, d_w, d_h, global_size>>

(* path_trace(to_path_trace_render_tiles[tile_iter], max_render_feasible_tile_size) *)
PathTraceSubTile ==
    /\ sp_pc = "path_trace"
    /\ tile_iter < Len(to_path_trace_render_tiles)
    /\ UNCHANGED aroundSplitVars
    /\ UNCHANGED tile_sample
    /\ cq_pending' = cq_pending + 1
    /\ UNCHANGED <<num_acquired, num_released>>
    /\ global_size' = PathTraceGlobalSize(to_path_trace_render_tiles[tile_iter + 1])
    /\ tile_iter' = tile_iter + 1
    /\ UNCHANGED <<sp_pc, tile_size, tiles_left, tile,
                   initialize_data_and_check_render_feasibility,
                   need_to_split_tiles_further, feasible_global_work_size,
                   max_render_feasible_tile_size, d_w, d_h,
                   to_path_trace_render_tiles>>

(* no splitting required: path_trace(tile, max_render_feasible_tile_size) *)
PathTraceWholeTile ==
    /\ sp_pc = "path_trace_whole"
    /\ UNCHANGED aroundSplitVars
    /\ UNCHANGED tile_sample
    /\ cq_pending' = cq_pending + 1
    /\ UNCHANGED <<num_acquired, num_released>>
    /\ global_size' = PathTraceGlobalSize(tile)
    /\ to_path_trace_render_tiles' = << >>
    /\ tile_iter' = 0
    /\ sp_pc' = "path_trace"
    /\ UNCHANGED <<tile_size, tiles_left, tile,
                   initialize_data_and_check_render_feasibility,
                   need_to_split_tiles_further, feasible_global_work_size,
                   max_render_feasible_tile_size, d_w, d_h>>

(* Mutant of ReleaseTile: the tile is released without clFinish. *)
ReleaseTileNoFinish ==
    /\ sp_pc = "path_trace"
    /\ tile_iter >= Len(to_path_trace_render_tiles)
    /\ UNCHANGED aroundSplitVars
    /\ tile_sample' = start_sample + num_samples
    /\ num_released' = num_released + 1
    /\ UNCHANGED <<num_acquired, cq_pending>>
    /\ sp_pc' = "acquire"
    /\ tile' = NoTile
    /\ d_w' = 0
    /\ d_h' = 0
    /\ to_path_trace_render_tiles' = << >>
    /\ tile_iter' = 0
    /\ global_size' = <<0, 0>>
    /\ UNCHANGED <<tile_size, tiles_left,
                   initialize_data_and_check_render_feasibility,
                   need_to_split_tiles_further, feasible_global_work_size,
                   max_render_feasible_tile_size>>

(* Mutant of ReleaseTile: a cancelled task leaves the loop over the        *)
(* sub-tiles early.                                                        *)
ReleaseTileOnCancel ==
    /\ sp_pc = "path_trace"
    /\ tile_iter >= Len(to_path_trace_render_tiles) \/ cancel
    /\ UNCHANGED aroundSplitVars
    /\ tile_sample' = start_sample + num_samples
    /\ cq_pending' = 0
    /\ num_released' = num_released + 1
    /\ UNCHANGED num_acquired
    /\ sp_pc' = "acquire"
    /\ tile' = NoTile
    /\ d_w' = 0
    /\ d_h' = 0
    /\ to_path_trace_render_tiles' = << >>
    /\ tile_iter' = 0
    /\ global_size' = <<0, 0>>
    /\ UNCHANGED <<tile_size, tiles_left,
                   initialize_data_and_check_render_feasibility,
                   need_to_split_tiles_further, feasible_global_work_size,
                   max_render_feasible_tile_size>>

(* clFinish(cqCommandQueue); task->release_tile(tile).  The tile goes back *)
(* to the task and the locals of the loop body (split_tile_size, the       *)
(* vector of sub-tiles, the loop counter) end their scope.                 *)
ReleaseTile ==
    /\ sp_pc = "path_trace"
    /\ tile_iter >= Len(to_path_trace_render_tiles)
    /\ UNCHANGED aroundSplitVars
    /\ tile_sample' = start_sample + num_samples
    /\ cq_pending' = 0
    /\ num_released' = num_released + 1
    /\ UNCHANGED num_acquired
    /\ sp_pc' = "acquire"
    /\ tile' = NoTile
    /\ d_w' = 0
    /\ d_h' = 0
    /\ to_path_trace_render_tiles' = << >>
    /\ tile_iter' = 0
    /\ global_size' = <<0, 0>>
    /\ UNCHANGED <<tile_size, tiles_left,
                   initialize_data_and_check_render_feasibility,
                   need_to_split_tiles_further, feasible_global_work_size,
                   max_render_feasible_tile_size>>

NextSplit ==
    \/ AcquireTile
    \/ AcquireNone
    \/ SplitLoopHalve
    \/ SplitLoopExit
    \/ PathTraceSubTile
    \/ PathTraceWholeTile
    \/ ReleaseTile

(* The render task does not touch the cache: its state stays as it is at   *)
(* process start.                                                          *)
CacheUntouched ==
    /\ CacheInit
    /\ key = [t \in Threads |-> 1]
    /\ devtype = [t \in Threads |-> "split"]

InitSplit ==
    /\ CacheUntouched /\ SplitInit /\ MemInit /\ SchedIdle /\ MegaIdle
    /\ NoTileYet
    /\ AuxIdle

SpecSplit == InitSplit /\ [][NextSplit]_vars

(* ======================= claims on the Tile Splitter =================== *)

(* the sub-tiles of the acquired tile have been computed by split_tiles *)
TilesSplit ==
    sp_pc = "path_trace" /\ need_to_split_tiles_further

RECURSIVE SumOfAreas(_, _)
SumOfAreas(tiles, n) ==
    IF n = 0 THEN 0 ELSE tiles[n].w * tiles[n].h + SumOfAreas(tiles, n - 1)

(* pixel rectangles a and b have no pixel in common *)
Disjoint(a, b) ==
    \/ a.x + a.w <= b.x
    \/ b.x + b.w <= a.x
    \/ a.y + a.h <= b.y
    \/ b.y + b.h <= a.y

(* pixel rectangle a lies inside pixel rectangle b *)
Inside(a, b) ==
    /\ b.x <= a.x /\ a.x + a.w <= b.x + b.w
    /\ b.y <= a.y /\ a.y + a.h <= b.y + b.h

(* C9: the sub-tiles split_tiles returns for the size get_split_tile_size   *)
(* returned are non-empty rectangles inside the tile, pairwise disjoint,   *)
(* no larger than the split size, and their areas add up to the tile's     *)
(* area: together they cover every pixel of the tile exactly once.         *)
C9_SplitCoversTile ==
    TilesSplit =>
       LET subs == to_path_trace_render_tiles
       IN  /\ Len(subs) >= 1
           /\ \A i \in 1..Len(subs) :
                 /\ subs[i].w >= 1 /\ subs[i].h >= 1
                 /\ subs[i].w <= d_w /\ subs[i].h <= d_h
                 /\ Inside(subs[i], tile)
           /\ \A i, j \in 1..Len(subs) : i < j => Disjoint(subs[i], subs[j])
           /\ SumOfAreas(subs, Len(subs)) = tile.w * tile.h

(* a tile split along both axes, with border sub-tiles narrower and lower  *)
(* than the split size                                                    *)
C9_Witness ==
    /\ TilesSplit
    /\ Len(to_path_trace_render_tiles) >= 4
    /\ \E i \in 1..Len(to_path_trace_render_tiles) :
          /\ to_path_trace_render_tiles[i].w < d_w
          /\ to_path_trace_render_tiles[i].h < d_h
          /\ to_path_trace_render_tiles[i].x > tile.x
          /\ to_path_trace_render_tiles[i].y > tile.y

(* C10: the global work size of every sub-tile dispatched by thread_run is *)
(* within max_render_feasible_tile_size.x * max_render_feasible_tile_size.y *)
(* (the assertion of path_trace), which is within the feasible work size.  *)
C10_SubTileWithinFeasible ==
    (TilesSplit /\ tile_iter >= 1) =>
       /\ global_size[1] * global_size[2]
             <= max_render_feasible_tile_size.x * max_render_feasible_tile_size.y
       /\ global_size[1] * global_size[2] <= feasible_global_work_size

(* the last of several sub-tiles has been dispatched, and the split size   *)
(* uses more than half of the feasible work size                           *)
C10_Witness ==
    /\ TilesSplit
    /\ Len(to_path_trace_render_tiles) >= 2
    /\ tile_iter = Len(to_path_trace_render_tiles)
    /\ global_size[1] * global_size[2] >= 1
    /\ 2 * d_w * d_h > feasible_global_work_size

(* C11: the halving loop of get_split_tile_size terminates whenever the    *)
(* feasible work size is at least 1.  The loop is deterministic and never  *)
(* enlarges d_w or d_h, so it terminates exactly when no iteration leaves  *)
(* both unchanged: inside the loop a step that changes the state is always *)
(* possible.                                                               *)
C11_HalvingLoopTerminates ==
    (sp_pc = "get_split_tile_size" /\ feasible_global_work_size >= 1) =>
       ENABLED <<SplitLoopHalve \/ SplitLoopExit>>_vars

(* The memory left for work items, in unbounded arithmetic: total less the *)
(* invariable, per-tile and scene allocations and a safety margin.         *)
BudgetLeft(margin) ==
    total_allocatable_memory - invariable_mem_allocated
       - tile_specific_mem_allocated - scene_specific_mem_allocated - margin

(* fewer than one local-size unit of work items fit (or none at all) *)
BudgetExhausted ==
    BudgetLeft(DATA_ALLOCATION_MEM_FACTOR)
       < SPLIT_KERNEL_LOCAL_SIZE_X * SPLIT_KERNEL_LOCAL_SIZE_Y
            * per_thread_memory_required

(* C12: when the allocations and the safety margin exhaust the device      *)
(* memory, or leave room for less than one local-size unit, the worker     *)
(* never dispatches a pipeline whose work-item count exceeds the memory    *)
(* budget.                                                                 *)
C12_ExhaustionNeverDispatchesOverBudget ==
    (BudgetExhausted /\ global_size # <<0, 0>>) =>
       global_size[1] * global_size[2] * per_thread_memory_required
          <= BudgetLeft(DATA_ALLOCATION_MEM_FACTOR)

(* C13 as stated, with the safety margin of its example (50,000): whenever *)
(* the subtraction is non-negative the feasible work size is its quotient  *)
(* by the per-work-item memory, and total = 1,000,000, invariable =        *)
(* 100,000, tile = 50,000, scene = 200,000, per item = 100 give 6,000.     *)
C13_FeasibleFormulaExampleMargin ==
    (initialize_data_and_check_render_feasibility /\ BudgetLeft(50000) >= 0) =>
       feasible_global_work_size
          = BudgetLeft(50000) \div per_thread_memory_required

(* C13, amended: the safety margin is the constant                         *)
(* DATA_ALLOCATION_MEM_FACTOR.  Whenever the subtraction is non-negative   *)
(* the feasible work size is floor((total - invariable - per_tile - scene  *)
(* - DATA_ALLOCATION_MEM_FACTOR) / per_work_item).                         *)
C13_FeasibleFormula ==
    (/\ initialize_data_and_check_render_feasibility
     /\ BudgetLeft(DATA_ALLOCATION_MEM_FACTOR) >= 0) =>
       feasible_global_work_size
          = BudgetLeft(DATA_ALLOCATION_MEM_FACTOR) \div per_thread_memory_required

(* total = 5,950,000 with the allocations of the example: 6,000 work items *)
C13_Witness ==
    /\ initialize_data_and_check_render_feasibility
    /\ total_allocatable_memory = 5950000
    /\ invariable_mem_allocated = 100000
    /\ tile_specific_mem_allocated = 50000
    /\ scene_specific_mem_allocated = 200000
    /\ per_thread_memory_required = 100
    /\ feasible_global_work_size = 6000

(* ======================== path_trace: the scheduler ==================== *)

(* the kernels of one round, in the order the for loop enqueues them *)
Stages ==
    <<"SceneIntersect", "LampEmission", "QueueEnqueue", "BG_BufferUpdate",
      "Shader_Lighting", "Holdout_Emission_Blurring_Pathtermination_AO",
      "DirectLighting", "ShadowBlocked_DirectLighting", "SetUpNextIteration">>

(* unsigned int arithmetic wraps around; the model keeps 30 bits of it *)
UIntModulus == 2^30

UIntMinus(a, b) == (a - b) % UIntModulus

(* global_size[0] * global_size[1], the entries clEnqueueReadBuffer copies *)
NumRayStates(gs) == gs[1] * gs[2]

(* The kernels are not part of the host program.  They are represented by  *)
(* a stub: DataInit makes the first n entries active, and every round      *)
(* turns the flips active entries of lowest index inactive.                *)
StubDataInit(rs, n) ==
    [i \in DOMAIN rs |-> IF i < n THEN "RAY_ACTIVE" ELSE rs[i]]

StubRound(rs, n, flips) ==
    [i \in DOMAIN rs |->
        IF /\ i < n
           /\ rs[i] = "RAY_ACTIVE"
           /\ Cardinality({j \in 0..(i - 1) : rs[j] = "RAY_ACTIVE"}) < flips
        THEN "RAY_INACTIVE" ELSE rs[i]]

(* the sub-tiles thread_run passes and the flips of the stub *)
SchedTiles == {[w |-> 1, h |-> 1], [w |-> 64, h |-> 2]}

StubFlips == {1, 3, 16, 128}

(* path_trace up to the while loop: the global work size, on the first     *)
(* tile the allocation of ray_state and hostRayStateArray (calloc), the    *)
(* DataInit kernel, and the locals of the loop.  Between two calls         *)
(* thread_run hands over the next tile.                                    *)
PathTraceDataInit ==
    /\ sc_pc = "call"
    /\ \E rt \in SchedTiles, flips \in StubFlips :
          LET gs == PathTraceGlobalSize(rt)
              num_global_elements ==
                 max_render_feasible_tile_size.x * max_render_feasible_tile_size.y
              zeroed == [i \in 0..(num_global_elements - 1) |-> "ZERO"]
          IN  /\ NumRayStates(gs) <= num_global_elements
              /\ tile' = [x |-> 0, y |-> 0, w |-> rt.w, h |-> rt.h,
                          stride |-> rt.w, offset |-> 0]
              /\ global_size' = gs
              /\ flips_per_round' = flips
              /\ ray_state' = StubDataInit(IF first_tile THEN zeroed ELSE ray_state,
                                           NumRayStates(gs))
              /\ hostRayStateArray' = IF first_tile THEN zeroed
                                      ELSE hostRayStateArray
    /\ activeRaysAvailable' = TRUE
    /\ numHostIntervention' = 0
    /\ numNextPathIterTimes' = PathIteration_times
    /\ PathIter' = 0
    /\ stage' = 1
    /\ last_enqueued' = "DataInit"
    /\ num_enqueued' = 1
    /\ rounds_run' = 0
    /\ start_times' = PathIteration_times
    /\ dispatch_failed' = ""
    /\ sc_pc' = "iterate"
    /\ UNCHANGED <<first_tile, PathIteration_times>>
    /\ UNCHANGED aroundSchedVars
    /\ UNCHANGED <<sp_pc, tile_size, tiles_left,
                   initialize_data_and_check_render_feasibility,
                   need_to_split_tiles_further, feasible_global_work_size,
                   max_render_feasible_tile_size, d_w, d_h,
                   to_path_trace_render_tiles, tile_iter>>

(* Mutant of EnqueueStage: the round skips the kernel after                *)
(* BG_BufferUpdate.                                                        *)
EnqueueStageSkipping ==
    /\ sc_pc = "iterate"
    /\ stage > 1 \/ PathIter < PathIteration_times
    /\ last_enqueued' = Stages[stage]
    /\ num_enqueued' = num_enqueued + 1
    /\ ray_state' = IF Stages[stage] = "BG_BufferUpdate"
                    THEN StubRound(ray_state, NumRayStates(global_size),
                                   flips_per_round)
                    ELSE ray_state
    /\ IF stage < Len(Stages)
       THEN /\ stage' = IF stage = 4 THEN stage + 2 ELSE stage + 1
            /\ UNCHANGED <<PathIter, rounds_run>>
       ELSE /\ stage' = 1
            /\ PathIter' = PathIter + 1
            /\ rounds_run' = rounds_run + 1
    /\ UNCHANGED <<sc_pc, first_tile, PathIteration_times, numHostIntervention,
                   numNextPathIterTimes, activeRaysAvailable,
                   hostRayStateArray, flips_per_round, start_times>>
    /\ UNCHANGED <<aroundSchedVars, splitVars, dispatch_failed>>

(* one ENQUEUE_SPLIT_KERNEL of the for loop; after SetUpNextIteration the  *)
(* loop counter is incremented                                             *)
EnqueueStage ==
    /\ sc_pc = "iterate"
    /\ stage > 1 \/ PathIter < PathIteration_times
    /\ last_enqueued' = Stages[stage]
    /\ num_enqueued' = num_enqueued + 1
    /\ ray_state' = IF Stages[stage] = "BG_BufferUpdate"
                    THEN StubRound(ray_state, NumRayStates(global_size),
                                   flips_per_round)
                    ELSE ray_state
    /\ IF stage < Len(Stages)
       THEN /\ stage' = stage + 1
            /\ UNCHANGED <<PathIter, rounds_run>>
       ELSE /\ stage' = 1
            /\ PathIter' = PathIter + 1
            /\ rounds_run' = rounds_run + 1
    /\ UNCHANGED <<sc_pc, first_tile, PathIteration_times, numHostIntervention,
                   numNextPathIterTimes, activeRaysAvailable,
                   hostRayStateArray, flips_per_round, start_times>>
    /\ UNCHANGED <<aroundSchedVars, splitVars, dispatch_failed>>

(* Mutant of ForLoopExit: the worker stays at the end of the for loop and *)
(* the ray state is never read.                                            *)
ForLoopExitNoRead ==
    /\ sc_pc = "iterate"
    /\ stage = 1
    /\ ~(PathIter < PathIteration_times)
    /\ UNCHANGED sc_pc
    /\ UNCHANGED <<first_tile, PathIteration_times, numHostIntervention,
                   numNextPathIterTimes, PathIter, stage, activeRaysAvailable,
                   ray_state, hostRayStateArray, flips_per_round,
                   last_enqueued, num_enqueued, rounds_run, start_times>>
    /\ UNCHANGED <<aroundSchedVars, splitVars, dispatch_failed>>

(* PathIter < PathIteration_times is false: the block of rounds is done *)
ForLoopExit ==
    /\ sc_pc = "iterate"
    /\ stage = 1
    /\ ~(PathIter < PathIteration_times)
    /\ sc_pc' = "poll"
    /\ UNCHANGED <<first_tile, PathIteration_times, numHostIntervention,
                   numNextPathIterTimes, PathIter, stage, activeRaysAvailable,
                   ray_state, hostRayStateArray, flips_per_round,
                   last_enqueued, num_enqueued, rounds_run, start_times>>
    /\ UNCHANGED <<aroundSchedVars, splitVars, dispatch_failed>>

(* clEnqueueReadBuffer (blocking): the first n entries of ray_state *)
ReadRayState(host, rs, n) ==
    [i \in DOMAIN host |-> IF i < n THEN rs[i] ELSE host[i]]

(* Mutant of ScanRayState: only global_size[0] entries are scanned. *)
ScanRayStateFirstRow(host, gs) ==
    \E rayStateIter \in 0..(gs[1] - 1) : host[rayStateIter] # "RAY_INACTIVE"

(* the scan of hostRayStateArray: is some entry not RAY_INACTIVE *)
ScanRayState(host, gs) ==
    \E rayStateIter \in 0..(NumRayStates(gs) - 1) :
       host[rayStateIter] # "RAY_INACTIVE"

(* Mutant of PollRayState: after an intervention PathIteration_times and   *)
(* numNextPathIterTimes are left as they are.                              *)
PollRayStateNoIncrement ==
    /\ sc_pc = "poll"
    /\ LET host == ReadRayState(hostRayStateArray, ray_state,
                                NumRayStates(global_size))
           active == ScanRayState(host, global_size)
       IN  /\ hostRayStateArray' = host
           /\ activeRaysAvailable' = active
           /\ IF active
              THEN /\ numHostIntervention' = numHostIntervention + 1
                   /\ UNCHANGED <<PathIteration_times, numNextPathIterTimes>>
                   /\ PathIter' = 0
                   /\ sc_pc' = "iterate"
              ELSE /\ sc_pc' = "sum"
                   /\ UNCHANGED <<numHostIntervention, PathIteration_times,
                                  numNextPathIterTimes, PathIter>>
    /\ UNCHANGED <<first_tile, stage, ray_state, flips_per_round,
                   last_enqueued, num_enqueued, rounds_run, start_times>>
    /\ UNCHANGED <<aroundSchedVars, splitVars, dispatch_failed>>

(* the ray-state read, the scan, the host intervention, and the test of    *)
(* the while loop (with the initialisation of the next for loop)           *)
PollRayState ==
    /\ sc_pc = "poll"
    /\ LET host == ReadRayState(hostRayStateArray, ray_state,
                                NumRayStates(global_size))
           active == ScanRayState(host, global_size)
       IN  /\ hostRayStateArray' = host
           /\ activeRaysAvailable' = active
           /\ IF active
              THEN /\ numHostIntervention' = numHostIntervention + 1
                   /\ PathIteration_times' = PATH_ITER_INC_FACTOR
                   /\ numNextPathIterTimes' =
                         numNextPathIterTimes + PATH_ITER_INC_FACTOR
                   /\ PathIter' = 0
                   /\ sc_pc' = "iterate"
              ELSE /\ sc_pc' = "sum"
                   /\ UNCHANGED <<numHostIntervention, PathIteration_times,
                                  numNextPathIterTimes, PathIter>>
    /\ UNCHANGED <<first_tile, stage, ray_state, flips_per_round,
                   last_enqueued, num_enqueued, rounds_run, start_times>>
    /\ UNCHANGED <<aroundSchedVars, splitVars, dispatch_failed>>

(* Mutant of NextPathIterationTimes: the decrease is not floored. *)
NextPathIterationTimesNoFloor(interventions, next_times) ==
    IF interventions = 0
    THEN UIntMinus(next_times, PATH_ITER_INC_FACTOR)
    ELSE next_times

(* PathIteration_times for the next tile, the end of path_trace *)
NextPathIterationTimes(interventions, next_times) ==
    IF interventions = 0
    THEN IF UIntMinus(next_times, PATH_ITER_INC_FACTOR) <= 0
         THEN PATH_ITER_INC_FACTOR
         ELSE UIntMinus(next_times, PATH_ITER_INC_FACTOR)
    ELSE next_times

(* the SumAllRadiance kernel, PathIteration_times for the next tile,       *)
(* first_tile = false, and the return to thread_run                        *)
EnqueueSumAllRadiance ==
    /\ sc_pc = "sum"
    /\ last_enqueued' = "SumAllRadiance"
    /\ num_enqueued' = num_enqueued + 1
    /\ PathIteration_times' =
          NextPathIterationTimes(numHostIntervention, numNextPathIterTimes)
    /\ first_tile' = FALSE
    /\ sc_pc' = "call"
    /\ UNCHANGED <<numHostIntervention, numNextPathIterTimes, PathIter, stage,
                   activeRaysAvailable, ray_state, hostRayStateArray,
                   flips_per_round, rounds_run, start_times>>
    /\ UNCHANGED <<aroundSchedVars, splitVars, dispatch_failed>>

NextSched ==
    \/ PathTraceDataInit
    \/ EnqueueStage
    \/ ForLoopExit
    \/ PollRayState
    \/ EnqueueSumAllRadiance

(* thread_run in its branch without splitting, about to call path_trace:   *)
(* the user-set tile size is 64 x 2, the device has room for 6000 work     *)
(* items, and max_render_feasible_tile_size is the rounded tile size.      *)
SplitAtPathTrace ==
    /\ sp_pc = "path_trace_whole"
    /\ tile_size = [x |-> 64, y |-> 2]
    /\ tiles_left = 0
    /\ tile = NoTile
    /\ initialize_data_and_check_render_feasibility = TRUE
    /\ feasible_global_work_size =
          get_feasible_global_work_size(total_allocatable_memory,
                invariable_mem_allocated, tile_specific_mem_allocated,
                scene_specific_mem_allocated, per_thread_memory_required)
    /\ need_to_split_tiles_further =
          need_to_split_tile(tile_size.x, tile_size.y,
                get_max_render_feasible_tile_size(feasible_global_work_size))
    /\ max_render_feasible_tile_size =
          [x |-> CeilToLocalSize(tile_size.x, SPLIT_KERNEL_LOCAL_SIZE_X),
           y |-> CeilToLocalSize(tile_size.y, SPLIT_KERNEL_LOCAL_SIZE_Y)]
    /\ d_w = 0
    /\ d_h = 0
    /\ to_path_trace_render_tiles = << >>
    /\ tile_iter = 0
    /\ global_size = <<0, 0>>

InitSched ==
    /\ CacheUntouched
    /\ MemInit
    /\ total_allocatable_memory = 5950000
    /\ SplitAtPathTrace
    /\ need_to_split_tiles_further = FALSE
    /\ sc_pc = "call"
    /\ SchedConstructed
    /\ MegaIdle
    /\ num_acquired = 1
    /\ num_released = 0
    /\ cq_pending = 0
    /\ AuxIdle

SpecSched == InitSched /\ [][NextSched]_vars

(* --------------------------- scheduler: claims ------------------------- *)

(* path_trace has returned (and thread_run has not called it again) *)
PathTraceReturned == sc_pc = "call" /\ last_enqueued = "SumAllRadiance"

(* C14: SumAllRadiance is enqueued only after a ray-state read in which    *)
(* every one of the global_size[0] * global_size[1] entries copied to the  *)
(* host was RAY_INACTIVE: when the while loop has been left, no entry of   *)
(* the host copy is anything else.                                         *)
C14_SumOnlyAfterAllInactive ==
    (sc_pc = "sum" \/ PathTraceReturned) =>
       \A i \in 0..(NumRayStates(global_size) - 1) :
          hostRayStateArray[i] = "RAY_INACTIVE"

(* the loop is left after host interventions on a tile of two rows *)
C14_Witness ==
    /\ sc_pc = "sum"
    /\ numHostIntervention >= 2
    /\ global_size = <<64, 2>>

(* C15: per call of path_trace, DataInit is enqueued exactly once and      *)
(* first, every round enqueues the nine kernels in the order of Stages     *)
(* with none skipped or reordered, and SumAllRadiance is enqueued exactly  *)
(* once, right after the SetUpNextIteration of the last round.             *)
C15_StageOrder ==
    [][num_enqueued' # num_enqueued =>
          \/ /\ last_enqueued' = "DataInit"
             /\ num_enqueued' = 1
             /\ last_enqueued \in {"none", "SumAllRadiance"}
          \/ /\ last_enqueued' = Stages[1]
             /\ last_enqueued \in {"DataInit", Stages[Len(Stages)]}
             /\ num_enqueued' = num_enqueued + 1
          \/ /\ \E i \in 1..(Len(Stages) - 1) :
                   last_enqueued = Stages[i] /\ last_enqueued' = Stages[i + 1]
             /\ num_enqueued' = num_enqueued + 1
          \/ /\ last_enqueued' = "SumAllRadiance"
             /\ last_enqueued = Stages[Len(Stages)]
             /\ num_enqueued' = num_enqueued + 1
             /\ num_enqueued' = Len(Stages) * rounds_run + 2]_vars

(* a call that enqueued DataInit, 24 rounds or more, and SumAllRadiance *)
C15_Witness ==
    /\ PathTraceReturned
    /\ rounds_run >= 24
    /\ num_enqueued = Len(Stages) * rounds_run + 2

(* C16 as stated: when a read finds an entry that is not RAY_INACTIVE, the *)
(* intervention counter grows by one and the number of rounds of the next  *)
(* block is that of the block just run plus PATH_ITER_INC_FACTOR.          *)
C16_NextBlockGrown ==
    [][(sc_pc = "poll" /\ sc_pc' # "poll" /\ activeRaysAvailable') =>
          /\ numHostIntervention' = numHostIntervention + 1
          /\ PathIteration_times' = PathIteration_times + PATH_ITER_INC_FACTOR]_vars

(* C16, amended: when a read finds an entry that is not RAY_INACTIVE, the  *)
(* intervention counter grows by one, the next block of the same sub-tile  *)
(* has exactly PATH_ITER_INC_FACTOR rounds, and the count kept for the     *)
(* next tile (numNextPathIterTimes) grows by PATH_ITER_INC_FACTOR.         *)
C16_NextBlockIsIncrement ==
    [][(sc_pc = "poll" /\ sc_pc' # "poll" /\ activeRaysAvailable') =>
          /\ numHostIntervention' = numHostIntervention + 1
          /\ PathIteration_times' = PATH_ITER_INC_FACTOR
          /\ numNextPathIterTimes' = numNextPathIterTimes + PATH_ITER_INC_FACTOR
          /\ sc_pc' = "iterate"
          /\ PathIter' = 0]_vars

(* an intervention after a first block of 16 rounds or more *)
C16_Witness ==
    /\ sc_pc = "iterate"
    /\ numHostIntervention = 1
    /\ start_times >= 2 * PATH_ITER_INC_FACTOR
    /\ PathIteration_times = PATH_ITER_INC_FACTOR
    /\ rounds_run = start_times

(* C17: a sub-tile that is done at its first ray-state read leaves, for    *)
(* the next tile, PathIteration_times = the value it started with less     *)
(* PATH_ITER_INC_FACTOR, and never less than PATH_ITER_INC_FACTOR.         *)
C17_DecreaseRule ==
    (PathTraceReturned /\ numHostIntervention = 0) =>
       /\ PathIteration_times >= PATH_ITER_INC_FACTOR
       /\ PathIteration_times =
             IF start_times - PATH_ITER_INC_FACTOR >= PATH_ITER_INC_FACTOR
             THEN start_times - PATH_ITER_INC_FACTOR
             ELSE PATH_ITER_INC_FACTOR

(* a tile that started with 24 rounds or more and needed no intervention *)
C17_Witness ==
    /\ PathTraceReturned
    /\ numHostIntervention = 0
    /\ start_times >= 3 * PATH_ITER_INC_FACTOR
    /\ PathIteration_times = start_times - PATH_ITER_INC_FACTOR

(* C18: after k >= 1 interventions on a sub-tile that started with B       *)
(* rounds, PathIteration_times for the next tile is B + 8 * k, the number  *)
(* of rounds enqueued for the sub-tile.                                    *)
C18_IncreaseRule ==
    (PathTraceReturned /\ numHostIntervention >= 1) =>
       /\ PathIteration_times
             = start_times + PATH_ITER_INC_FACTOR * numHostIntervention
       /\ PathIteration_times = rounds_run

(* two interventions or more on a tile that started with 16 rounds or more *)
C18_Witness ==
    /\ PathTraceReturned
    /\ numHostIntervention >= 2
    /\ start_times >= 2 * PATH_ITER_INC_FACTOR
    /\ rounds_run = start_times + PATH_ITER_INC_FACTOR * numHostIntervention

(* ceil(a / b) *)
CeilDiv(a, b) == (a + b - 1) \div b

(* the rounds the stub needs to turn every entry inactive *)
RoundsNeeded == CeilDiv(NumRayStates(global_size), flips_per_round)

(* C19 as stated: with all entries active at the start and a fixed number  *)
(* of entries turned inactive per round, the loop ends after exactly       *)
(* ceil(total / flips_per_round) rounds.                                   *)
C19_RoundsExactlyCeil ==
    PathTraceReturned => rounds_run = RoundsNeeded

(* C19, amended: the loop ends at the first ray-state read made after      *)
(* ceil(total / flips_per_round) rounds or more: after B + 8 * k rounds,   *)
(* B = PathIteration_times at the start, k the least number with           *)
(* B + 8 * k >= ceil(total / flips_per_round).                             *)
C19_RoundsUpToRead ==
    PathTraceReturned =>
       /\ rounds_run = start_times + PATH_ITER_INC_FACTOR * numHostIntervention
       /\ rounds_run >= RoundsNeeded
       /\ numHostIntervention >= 1 =>
             rounds_run - PATH_ITER_INC_FACTOR < RoundsNeeded

(* 128 entries, 3 per round: 43 rounds needed, 48 run *)
C19_Witness ==
    /\ PathTraceReturned
    /\ NumRayStates(global_size) = 128
    /\ flips_per_round = 3
    /\ RoundsNeeded = 43
    /\ rounds_run = 48

(* ==================== OpenCLDeviceMegaKernel::thread_run =============== *)

(* the PATH_TRACE task as the megakernel worker starts on it *)
MegaInit ==
    /\ mk_pc = "acquire"
    /\ mk_tiles_left = MaxTiles
    /\ need_finish_queue \in BOOLEAN
    /\ sample = 0
    /\ end_sample = 0

(* task->acquire_tile returns a tile; the sample loop starts *)
MegaAcquireTile ==
    /\ mk_pc = "acquire"
    /\ mk_tiles_left > 0
    /\ mk_tiles_left' = mk_tiles_left - 1
    /\ \E tile_start \in 0..1, tile_samples \in 0..MaxSamples :
          /\ sample' = tile_start
          /\ end_sample' = tile_start + tile_samples
    /\ mk_pc' = "samples"
    /\ num_acquired' = num_acquired + 1
    /\ UNCHANGED <<need_finish_queue, num_released, cq_pending>>
    /\ UNCHANGED aroundMegaVars

(* acquire_tile returns false: the task is done *)
MegaAcquireNone ==
    /\ mk_pc = "acquire"
    /\ mk_pc' = "done"
    /\ UNCHANGED <<mk_tiles_left, need_finish_queue, sample, end_sample,
                   num_acquired, num_released, cq_pending>>
    /\ UNCHANGED aroundMegaVars

(* one iteration of the sample loop: the task is not cancelled, or it is   *)
(* and the queue has to be finished; path_trace(tile, sample) enqueues the *)
(* kernel                                                                  *)
MegaPathTrace ==
    /\ mk_pc = "samples"
    /\ sample < end_sample
    /\ \E get_cancel \in BOOLEAN : ~(get_cancel /\ ~need_finish_queue)
    /\ cq_pending' = cq_pending + 1
    /\ sample' = sample + 1
    /\ UNCHANGED <<mk_pc, mk_tiles_left, need_finish_queue, end_sample,
                   num_acquired, num_released>>
    /\ UNCHANGED aroundMegaVars

(* the task is cancelled and need_finish_queue is false: break *)
MegaCancelBreak ==
    /\ mk_pc = "samples"
    /\ sample < end_sample
    /\ ~need_finish_queue
    /\ mk_pc' = "finish"
    /\ UNCHANGED <<mk_tiles_left, need_finish_queue, sample, end_sample,
                   num_acquired, num_released, cq_pending>>
    /\ UNCHANGED aroundMegaVars

(* Mutant of MegaReleaseTile: the tile is released without clFinish. *)
MegaReleaseTileNoFinish ==
    /\ mk_pc = "finish" \/ (mk_pc = "samples" /\ ~(sample < end_sample))
    /\ num_released' = num_released + 1
    /\ mk_pc' = "acquire"
    /\ sample' = 0
    /\ end_sample' = 0
    /\ UNCHANGED <<mk_tiles_left, need_finish_queue, num_acquired, cq_pending>>
    /\ UNCHANGED aroundMegaVars

(* the sample loop is over: clFinish(cqCommandQueue); release_tile(tile) *)
MegaReleaseTile ==
    /\ mk_pc = "finish" \/ (mk_pc = "samples" /\ ~(sample < end_sample))
    /\ cq_pending' = 0
    /\ num_released' = num_released + 1
    /\ mk_pc' = "acquire"
    /\ sample' = 0
    /\ end_sample' = 0
    /\ UNCHANGED <<mk_tiles_left, need_finish_queue, num_acquired>>
    /\ UNCHANGED aroundMegaVars

NextMega ==
    \/ MegaAcquireTile
    \/ MegaAcquireNone
    \/ MegaPathTrace
    \/ MegaCancelBreak
    \/ MegaReleaseTile

(* The device is an OpenCLDeviceSplitKernel or an OpenCLDeviceMegaKernel;  *)
(* its worker runs a PATH_TRACE task.                                      *)
InitWorker ==
    /\ CacheInit
    /\ key = [t \in Threads |-> 1]
    /\ SchedIdle
    /\ NoTileYet
    /\ AuxIdle
    /\ \/ /\ devtype = [t \in Threads |-> "split"]
          /\ SplitInit /\ MemInit /\ MegaIdle
       \/ /\ devtype = [t \in Threads |-> "mega"]
          /\ SplitIdle /\ MemIdle /\ MegaInit

NextWorker == NextSplit \/ NextMega

SpecWorker == InitWorker /\ [][NextWorker]_vars

(* the worker has left the tile loop *)
WorkerDone == sp_pc = "done" \/ mk_pc = "done"

(* every path_trace call thread_run makes for the tile it holds is made *)
AllDispatched ==
    /\ sp_pc = "path_trace" =>
          /\ tile_iter >= Len(to_path_trace_render_tiles)
          /\ cq_pending = IF need_to_split_tiles_further
                          THEN Len(to_path_trace_render_tiles) ELSE 1
    /\ mk_pc = "samples" => sample = end_sample

(* C20: for every tile of a worker (split kernel or megakernel) the events *)
(* come in the order acquire, the dispatches of the tile, clFinish,        *)
(* release.  A tile is acquired only when every tile acquired before has   *)
(* been released and nothing is enqueued; kernels are enqueued only for    *)
(* the tile held; the queue is drained only by the clFinish of a release;  *)
(* a tile is released once, after all its dispatches and with the queue    *)
(* drained; the worker stops only when acquire_tile returns no tile, with  *)
(* no tile held, and does nothing afterwards.                              *)
C20_TileEventOrder ==
    [][/\ num_acquired' # num_acquired =>
             /\ num_acquired' = num_acquired + 1
             /\ num_released = num_acquired
             /\ num_released' = num_released
             /\ cq_pending = 0 /\ cq_pending' = 0
       /\ cq_pending' > cq_pending =>
             /\ cq_pending' = cq_pending + 1
             /\ num_acquired = num_released + 1
             /\ num_acquired' = num_acquired
             /\ num_released' = num_released
       /\ cq_pending' < cq_pending => num_released' = num_released + 1
       /\ num_released' # num_released =>
             /\ num_released' = num_released + 1
             /\ num_acquired = num_released + 1
             /\ num_acquired' = num_acquired
             /\ AllDispatched
             /\ cq_pending' = 0
       /\ (WorkerDone' /\ ~WorkerDone) =>
             /\ sp_pc = "acquire" \/ mk_pc = "acquire"
             /\ num_acquired' = num_released
             /\ cq_pending' = 0
       /\ ~WorkerDone]_vars

(* the split-kernel worker has rendered a tile in several sub-tiles,       *)
(* released every tile it acquired, and stopped                            *)
C20_Witness ==
    /\ sp_pc = "done"
    /\ num_acquired = MaxTiles
    /\ num_released = MaxTiles
    /\ cq_pending = 0

(* ================= the split-kernel worker and cancellation ============ *)

(* the render is cancelled (by another thread), at any time *)
TaskCancel ==
    /\ ~cancel
    /\ sp_pc # "done"
    /\ cancel' = TRUE
    /\ cancelled_at' = [tile |-> num_acquired, pending |-> cq_pending]
    /\ UNCHANGED <<start_sample, num_samples, tile_sample>>
    /\ UNCHANGED <<cacheVars, splitVars, memVars, schedVars, workerVars,
                   buildVars, allocVars, extraVars>>

(* a PATH_TRACE task of square tiles on a split-kernel device *)
InitCancel ==
    /\ CacheUntouched /\ SplitInit /\ MemInit /\ SchedIdle /\ MegaIdle
    /\ NoTileYet
    /\ tile_size.x = tile_size.y
    /\ cancel = FALSE
    /\ start_sample \in 0..1
    /\ num_samples = MaxSamples
    /\ tile_sample = 0
    /\ cancelled_at = [tile |-> 0, pending |-> 0]
    /\ BuildIdle
    /\ AllocIdle
    /\ ExtraIdle

NextCancel == NextSplit \/ TaskCancel

SpecCancel == InitCancel /\ [][NextCancel]_vars

(* C21: the split-kernel worker does not look at the cancel signal while it *)
(* holds a tile.  Whatever the signal does, a tile is released only after  *)
(* path_trace has been called for every one of its sub-tiles, and with     *)
(* tile.sample = start_sample + num_samples; a cancellation changes        *)
(* nothing in the state of the worker.                                     *)
C21_CancelNotCheckedMidTile ==
    [][/\ num_released' = num_released + 1 =>
             /\ AllDispatched
             /\ tile_sample' = start_sample + num_samples
       /\ cancel' # cancel => UNCHANGED <<splitVars, workerVars, tile_sample>>]_vars

(* the task was cancelled after a path_trace call for a tile and before    *)
(* the release of that tile, and the tile has been released                *)
C21_Witness ==
    /\ cancel
    /\ sp_pc = "acquire"
    /\ cancelled_at.pending >= 1
    /\ cancelled_at.tile = num_released
    /\ tile_sample = start_sample + num_samples


(* ========================= the Program Builder ========================= *)

(* everything but the builder and the error string *)
aroundBuildVars == <<cacheVars, splitVars, memVars, schedVars, workerVars,
                     taskVars, allocVars, extraVars, tile_sample>>

(* opencl_error, opencl_assert and opencl_assert_err: the value of         *)
(* error_msg after message has been reported                               *)
opencl_error_overwrite(message) == message

opencl_error(message) == IF error_msg = "" THEN message ELSE error_msg

(* clCreateProgramWithSource and clBuildProgram of the source of key k *)
ProgramFromSource(k) == [code |-> k, built_from |-> "source"]

(* clGetProgramInfo(CL_PROGRAM_BINARIES): the bytes save_binary writes *)
ProgramBinary(program) == [kind |-> "binary", binary_of |-> program.code]

(* clCreateProgramWithBinary and clBuildProgram of the bytes of a file *)
ProgramFromBinary(file) == [code |-> file.binary_of, built_from |-> "binary"]

(* two programs dispatch identically: they are builds of the same code *)
Equivalent(p, q) == p.code = q.code /\ p.code # 0

(* results of load_binary on a file: reading it can fail, a file that is  *)
(* no binary of the device is rejected by the driver or by the build      *)
LoadOutcomes(file) ==
    IF file.kind = "binary"
    THEN {"ok", "read_failed"}
    ELSE {"read_failed", "create_failed", "build_failed"}

CompileOutcomes == {"ok", "create_failed", "build_failed"}

SaveOutcomes == {"ok", "no_size", "write_failed"}

(* the builder returns to its caller *)
BuildReturn(value) ==
    /\ bd_result' = value
    /\ bd_pc' = "returned"

(* load_kernels up to the test of path_exists(clbin), or load_split_kernel *)
(* up to the same test: the program of the slot is used if there is one,   *)
(* the version check can fail                                              *)
BuildBegin(k, split, version_ok) ==
    /\ bd_pc \in {"idle", "returned"}
    /\ bd_key' = k
    /\ bd_split' = split
    /\ bd_trace' = <<>>
    /\ IF ~split /\ cached_program # NoProgram
       THEN /\ cpProgram' = cached_program
            /\ bd_pc' = "find_kernels"
            /\ UNCHANGED <<bd_exists, bd_result, error_msg>>
       ELSE IF ~version_ok
       THEN /\ error_msg' = opencl_error("OpenCL: platform version")
            /\ BuildReturn(FALSE)
            /\ UNCHANGED <<bd_exists, cpProgram>>
       ELSE /\ bd_exists' = (clbin_files[k] # NoFile)
            /\ bd_pc' = IF clbin_files[k] # NoFile THEN "load_binary"
                                                   ELSE "compile_kernel"
            /\ cpProgram' = IF split THEN NoProgram ELSE cached_program
            /\ UNCHANGED <<bd_result, error_msg>>
    /\ UNCHANGED <<clbin_files, saved_by, cached_program, ndebug>>
    /\ UNCHANGED aroundBuildVars

(* the step after the program has been obtained: load_kernels stores it,   *)
(* load_split_kernel returns true                                          *)
AfterProgram ==
    IF bd_split THEN BuildReturn(TRUE)
    ELSE bd_pc' = "store_program" /\ UNCHANGED bd_result

(* load_binary and the test of its result *)
LoadBinary(outcome) ==
    /\ bd_pc = "load_binary"
    /\ outcome \in LoadOutcomes(clbin_files[bd_key])
    /\ IF outcome = "ok"
       THEN /\ cpProgram' = ProgramFromBinary(clbin_files[bd_key])
            /\ bd_trace' = Append(bd_trace, "load_binary")
            /\ AfterProgram
            /\ UNCHANGED error_msg
       ELSE /\ bd_trace' = Append(bd_trace, "load_binary failed")
            /\ bd_pc' = "compile_kernel"
            /\ error_msg' = opencl_error(
                   CASE outcome = "read_failed" ->
                            "OpenCL failed to read cached binary"
                     [] outcome = "create_failed" ->
                            "OpenCL error: clCreateProgramWithBinary"
                     [] outcome = "build_failed" ->
                            "OpenCL build failed: errors in console")
            /\ UNCHANGED <<cpProgram, bd_result>>
    /\ UNCHANGED <<bd_split, bd_key, bd_exists, clbin_files, saved_by,
                   cached_program, ndebug>>
    /\ UNCHANGED aroundBuildVars

(* compile_kernel without the test of its result *)
CompileKernelUntested(outcome) ==
    /\ bd_pc = "compile_kernel"
    /\ cpProgram' = IF outcome = "ok" THEN ProgramFromSource(bd_key)
                    ELSE [code |-> bd_key, built_from |-> "failed build"]
    /\ bd_trace' = Append(bd_trace, IF outcome = "ok" THEN "compile_kernel"
                                    ELSE "compile_kernel failed")
    /\ error_msg' = IF outcome = "ok" THEN error_msg
                    ELSE opencl_error("OpenCL build failed: errors in console")
    /\ bd_pc' = "save_binary"
    /\ UNCHANGED bd_result
    /\ UNCHANGED <<bd_split, bd_key, bd_exists, clbin_files, saved_by,
                   cached_program, ndebug>>
    /\ UNCHANGED aroundBuildVars

(* compile_kernel and the test of its result *)
CompileKernel(outcome) ==
    /\ bd_pc = "compile_kernel"
    /\ IF outcome = "ok"
       THEN /\ cpProgram' = ProgramFromSource(bd_key)
            /\ bd_trace' = Append(bd_trace, "compile_kernel")
            /\ bd_pc' = "save_binary"
            /\ UNCHANGED <<bd_result, error_msg>>
       ELSE /\ cpProgram' = [code |-> bd_key, built_from |-> "failed build"]
            /\ bd_trace' = Append(bd_trace, "compile_kernel failed")
            /\ error_msg' = opencl_error(
                   IF outcome = "create_failed"
                   THEN "OpenCL error: clCreateProgramWithSource"
                   ELSE "OpenCL build failed: errors in console")
            /\ BuildReturn(FALSE)
    /\ UNCHANGED <<bd_split, bd_key, bd_exists, clbin_files, saved_by,
                   cached_program, ndebug>>
    /\ UNCHANGED aroundBuildVars

(* save_binary under the key of another program *)
SaveBinaryOtherKey(outcome, partial) ==
    /\ bd_pc = "save_binary"
    /\ LET other == (bd_key % NBuildKeys) + 1 IN
       /\ clbin_files' = [clbin_files EXCEPT ![other] = ProgramBinary(cpProgram)]
       /\ saved_by' = [saved_by EXCEPT ![other] = "this run"]
    /\ bd_trace' = Append(bd_trace, "save_binary")
    /\ AfterProgram
    /\ UNCHANGED error_msg
    /\ UNCHANGED <<bd_split, bd_key, bd_exists, cpProgram,
                   cached_program, ndebug>>
    /\ UNCHANGED aroundBuildVars

(* save_binary and the test of its result; a write that fails may leave a  *)
(* partial file                                                            *)
SaveBinary(outcome, partial) ==
    /\ bd_pc = "save_binary"
    /\ CASE outcome = "ok" ->
              /\ clbin_files' =
                     [clbin_files EXCEPT ![bd_key] = ProgramBinary(cpProgram)]
              /\ saved_by' = [saved_by EXCEPT ![bd_key] = "this run"]
              /\ bd_trace' = Append(bd_trace, "save_binary")
              /\ AfterProgram
              /\ UNCHANGED error_msg
         [] outcome = "no_size" ->
              /\ bd_trace' = Append(bd_trace, "save_binary failed")
              /\ BuildReturn(FALSE)
              /\ UNCHANGED <<clbin_files, saved_by, error_msg>>
         [] outcome = "write_failed" ->
              /\ clbin_files' = IF partial
                                THEN [clbin_files EXCEPT ![bd_key] = Garbage]
                                ELSE clbin_files
              /\ saved_by' = IF partial
                             THEN [saved_by EXCEPT ![bd_key] = "nobody"]
                             ELSE saved_by
              /\ bd_trace' = Append(bd_trace, "save_binary failed")
              /\ error_msg' =
                     opencl_error("OpenCL failed to write cached binary")
              /\ BuildReturn(FALSE)
    /\ UNCHANGED <<bd_split, bd_key, bd_exists, cpProgram,
                   cached_program, ndebug>>
    /\ UNCHANGED aroundBuildVars

(* OpenCLCache::store_program of load_kernels *)
StoreProgram ==
    /\ bd_pc = "store_program"
    /\ cached_program' = cpProgram
    /\ bd_pc' = "find_kernels"
    /\ UNCHANGED <<bd_split, bd_key, bd_exists, bd_result, bd_trace,
                   clbin_files, saved_by, cpProgram, error_msg, ndebug>>
    /\ UNCHANGED aroundBuildVars

(* the four clCreateKernel calls of load_kernels *)
FindKernels(ok) ==
    /\ bd_pc = "find_kernels"
    /\ IF ok
       THEN BuildReturn(TRUE) /\ UNCHANGED error_msg
       ELSE /\ error_msg' = opencl_error("OpenCL error: clCreateKernel")
            /\ BuildReturn(FALSE)
    /\ UNCHANGED <<bd_split, bd_key, bd_exists, bd_trace, clbin_files,
                   saved_by, cpProgram, cached_program, ndebug>>
    /\ UNCHANGED aroundBuildVars

(* mem_alloc: opencl_assert_err reports a failed clCreateBuffer and, in a  *)
(* build without NDEBUG, aborts                                            *)
MemAlloc(ok) ==
    /\ bd_pc \in {"idle", "returned"}
    /\ IF ok
       THEN UNCHANGED <<error_msg, bd_pc>>
       ELSE /\ error_msg' = opencl_error("OpenCL error: clCreateBuffer")
            /\ bd_pc' = IF ndebug THEN bd_pc ELSE "aborted"
    /\ UNCHANGED <<bd_split, bd_key, bd_exists, bd_result, bd_trace,
                   clbin_files, saved_by, cpProgram, cached_program,
                   ndebug>>
    /\ UNCHANGED aroundBuildVars

(* mem_copy_to: opencl_assert reports a failed clEnqueueWriteBuffer *)
MemCopyTo(ok) ==
    /\ bd_pc \in {"idle", "returned"}
    /\ error_msg' = IF ok THEN error_msg
                    ELSE opencl_error("OpenCL error: clEnqueueWriteBuffer")
    /\ UNCHANGED <<bd_pc, bd_split, bd_key, bd_exists, bd_result, bd_trace,
                   clbin_files, saved_by, cpProgram, cached_program,
                   ndebug>>
    /\ UNCHANGED aroundBuildVars

(* the process ends and another one starts on the same cache directory:    *)
(* its Resource Cache is empty and its device is newly constructed         *)
FreshRun ==
    /\ bd_pc \in {"returned", "aborted"}
    /\ saved_by' = [k \in BuildKeys |->
                       IF saved_by[k] = "nobody" THEN "nobody"
                                                 ELSE "an earlier run"]
    /\ bd_pc' = "idle"
    /\ bd_split' = FALSE
    /\ bd_key' = 1
    /\ bd_exists' = FALSE
    /\ bd_result' = "none"
    /\ bd_trace' = <<>>
    /\ cpProgram' = NoProgram
    /\ cached_program' = NoProgram
    /\ error_msg' = ""
    /\ UNCHANGED <<clbin_files, ndebug>>
    /\ UNCHANGED aroundBuildVars

NextBuild ==
    \/ \E k \in BuildKeys, split \in BOOLEAN, version_ok \in BOOLEAN :
           BuildBegin(k, split, version_ok)
    \/ \E outcome \in {"ok", "read_failed", "create_failed", "build_failed"} :
           LoadBinary(outcome)
    \/ \E outcome \in CompileOutcomes : CompileKernel(outcome)
    \/ \E outcome \in SaveOutcomes, partial \in BOOLEAN :
           SaveBinary(outcome, partial)
    \/ StoreProgram
    \/ \E ok \in BOOLEAN : FindKernels(ok)
    \/ \E ok \in BOOLEAN : MemAlloc(ok)
    \/ \E ok \in BOOLEAN : MemCopyTo(ok)
    \/ FreshRun

(* the first process starts on a cache directory that holds, for each      *)
(* key, no file or a file that is no binary of the device; binaries are    *)
(* written by the runs                                                     *)
InitBuild ==
    /\ CacheUntouched /\ SplitIdle /\ MemIdle /\ SchedIdle /\ MegaIdle
    /\ NoTileYet /\ TaskRunning /\ AllocIdle /\ ExtraIdle
    /\ ProcessStarted
    /\ clbin_files \in [BuildKeys -> {NoFile, Garbage}]
    /\ saved_by = [k \in BuildKeys |-> "nobody"]
    /\ ndebug \in BOOLEAN

SpecBuild == InitBuild /\ [][NextBuild]_vars

(* ------------------- claims on the Program Builder --------------------- *)

Loads == {"load_binary", "load_binary failed"}

Compiles == {"compile_kernel", "compile_kernel failed"}

Saves == {"save_binary", "save_binary failed"}

(* C22: if a file exists for the key, loading it is the first step; the    *)
(* program is compiled only as the first step when there is no file or     *)
(* right after a failed load; the artifact is saved only right after a     *)
(* successful compile and under the key of the call; after a successful    *)
(* load nothing is compiled or saved                                       *)
C22_FallbackOrder ==
    /\ \A i \in 1..Len(bd_trace) :
          /\ bd_trace[i] \in Loads => i = 1 /\ bd_exists
          /\ bd_trace[i] \in Compiles =>
                 IF bd_exists THEN i = 2 /\ bd_trace[1] = "load_binary failed"
                              ELSE i = 1
          /\ bd_trace[i] \in Saves => i > 1 /\ bd_trace[i - 1] = "compile_kernel"
          /\ bd_trace[i] = "save_binary" =>
                 /\ saved_by[bd_key] = "this run"
                 /\ clbin_files[bd_key] = ProgramBinary(ProgramFromSource(bd_key))
    /\ \A k \in BuildKeys :
          clbin_files[k].kind = "binary" => clbin_files[k].binary_of = k
    /\ (bd_trace # << >> /\ bd_trace[1] = "load_binary") => Len(bd_trace) = 1

(* a call fell back from a failed load to a compile and saved the artifact *)
C22_Witness ==
    /\ bd_pc = "returned"
    /\ bd_trace = <<"load_binary failed", "compile_kernel", "save_binary">>
    /\ bd_result = TRUE

(* C23: when compile_kernel fails the call returns false in that step,     *)
(* the files of the cache directory and the Resource Cache slot are left   *)
(* as they were, and the slot of load_kernels holds no program             *)
C23_CompileErrorLeavesCaches ==
    [][(bd_pc = "compile_kernel"
          /\ bd_trace' = Append(bd_trace, "compile_kernel failed")) =>
            /\ bd_pc' = "returned"
            /\ bd_result' = FALSE
            /\ clbin_files' = clbin_files
            /\ cached_program' = cached_program
            /\ ~bd_split => cached_program' = NoProgram]_vars

(* load_kernels returned after a compile error *)
C23_Witness ==
    /\ bd_pc = "returned"
    /\ ~bd_split
    /\ bd_trace # << >>
    /\ bd_trace[Len(bd_trace)] = "compile_kernel failed"

C25_FirstErrorWins ==
    [][(error_msg # "" /\ ~(bd_pc # "idle" /\ bd_pc' = "idle")) =>
           error_msg' = error_msg]_vars

(* a failed load was reported, a failed compile after it was not *)
C25_Witness ==
    /\ bd_trace = <<"load_binary failed", "compile_kernel failed">>
    /\ error_msg \in {"OpenCL failed to read cached binary",
                      "OpenCL error: clCreateProgramWithBinary"}

(* C26: when the load of an existing artifact fails and the compile and    *)
(* the save succeed, the call returns true and the error string is empty   *)
C26_SilentFallback ==
    (/\ bd_pc = "returned"
     /\ bd_trace = <<"load_binary failed", "compile_kernel", "save_binary">>) =>
        /\ bd_split => bd_result = TRUE
        /\ bd_result = TRUE => error_msg = ""

(* ==================== path_trace: a dispatch that fails ============== *)

(* one ENQUEUE_SPLIT_KERNEL of the for loop whose clEnqueueNDRangeKernel   *)
(* returns an error: opencl_assert records it, the kernel does not run,    *)
(* and the for loop goes on.  The dispatch that fails is one of the first  *)
(* path_trace call of the device, and the only one of that call.           *)
EnqueueStageFails ==
    /\ sc_pc = "iterate"
    /\ stage > 1 \/ PathIter < PathIteration_times
    /\ first_tile
    /\ dispatch_failed = ""
    /\ dispatch_failed' = Stages[stage]
    /\ error_msg' = opencl_error("OpenCL error: clEnqueueNDRangeKernel")
    /\ IF stage < Len(Stages)
       THEN /\ stage' = stage + 1
            /\ UNCHANGED <<PathIter, rounds_run>>
       ELSE /\ stage' = 1
            /\ PathIter' = PathIter + 1
            /\ rounds_run' = rounds_run + 1
    /\ UNCHANGED <<sc_pc, first_tile, PathIteration_times, numHostIntervention,
                   numNextPathIterTimes, activeRaysAvailable, ray_state,
                   hostRayStateArray, flips_per_round, last_enqueued,
                   num_enqueued, start_times>>
    /\ UNCHANGED <<bd_pc, bd_split, bd_key, bd_exists, bd_result, bd_trace,
                   clbin_files, saved_by, cpProgram, cached_program, ndebug>>
    /\ UNCHANGED <<cacheVars, splitVars, memVars, workerVars, taskVars,
                   allocVars, extraVars, tile_sample>>

NextDispatch == NextSched \/ EnqueueStageFails

SpecDispatch == InitSched /\ [][NextDispatch]_vars

(* C27: a dispatch that fails records an error, and after it no kernel is  *)
(* enqueued by the same path_trace call                                    *)
C27_DispatchFailureAbortsSubTile ==
    [][/\ (dispatch_failed = "" /\ dispatch_failed' # "") => error_msg' # ""
       /\ (dispatch_failed # "" /\ sc_pc # "call") =>
              num_enqueued' = num_enqueued]_vars

(* ============== the shared buffers over a sequence of tasks ============ *)

(* number of PATH_TRACE tasks the device runs *)
MaxTasks == 2

(* the worker is about to call path_trace *)
AtPathTrace ==
    \/ sp_pc = "path_trace_whole"
    \/ sp_pc = "path_trace" /\ tile_iter < Len(to_path_trace_render_tiles)

(* if(first_tile) of path_trace: the buffers and hostRayStateArray are     *)
(* allocated with max_render_feasible_tile_size.x * .y elements, and       *)
(* first_tile is false from this call on                                   *)
PathTraceAllocate ==
    /\ AtPathTrace
    /\ first_tile
    /\ allocated_elements' = num_global_threads
    /\ first_tile' = FALSE
    /\ UNCHANGED <<sc_pc, PathIteration_times, numHostIntervention,
                   numNextPathIterTimes, PathIter, stage, activeRaysAvailable,
                   ray_state, hostRayStateArray, flips_per_round,
                   last_enqueued, num_enqueued, rounds_run, start_times,
                   dispatch_failed>>
    /\ UNCHANGED <<cacheVars, splitVars, memVars, workerVars, taskVars,
                   buildVars, extraVars, task_no, tile_sample>>

(* thread_run returns and is called for the next PATH_TRACE task of the    *)
(* device: its locals are new, the tile size of the render may differ      *)
NextTask ==
    /\ sp_pc = "done"
    /\ task_no < MaxTasks
    /\ task_no' = task_no + 1
    /\ sp_pc' = "acquire"
    /\ \E e \in TileExtents : tile_size' = [x |-> e, y |-> e]
    /\ tiles_left' = MaxTiles
    /\ initialize_data_and_check_render_feasibility' = FALSE
    /\ need_to_split_tiles_further' = FALSE
    /\ feasible_global_work_size' = 0
    /\ max_render_feasible_tile_size' = [x |-> 0, y |-> 0]
    /\ UNCHANGED <<tile, d_w, d_h, to_path_trace_render_tiles, tile_iter,
                   global_size>>
    /\ UNCHANGED <<cacheVars, memVars, schedVars, workerVars, taskVars,
                   buildVars, extraVars, allocated_elements, tile_sample>>

(* path_trace after if(first_tile) *)
AllocatedPathTraceSubTile == ~first_tile /\ PathTraceSubTile

AllocatedPathTraceWholeTile == ~first_tile /\ PathTraceWholeTile

NextTasks ==
    \/ AcquireTile
    \/ AcquireNone
    \/ SplitLoopHalve
    \/ SplitLoopExit
    \/ PathTraceAllocate
    \/ AllocatedPathTraceSubTile
    \/ AllocatedPathTraceWholeTile
    \/ ReleaseTile
    \/ NextTask

(* a device with room for 6000 work items or for fewer, its first task *)
InitTasks ==
    /\ CacheUntouched /\ SplitInit /\ MemInit /\ SchedIdle /\ MegaIdle
    /\ NoTileYet
    /\ tile_size.x = tile_size.y
    /\ total_allocatable_memory \in {5950000, 5551600}
    /\ AuxIdle

SpecTasks == InitTasks /\ [][NextTasks]_vars

(* C28: the work items of every path_trace call fit the buffers: after     *)
(* the allocation global_size[0] * global_size[1] is at most the number    *)
(* of elements the buffers were allocated with                             *)
C28_DispatchFitsAllocation ==
    ~first_tile => NumRayStates(global_size) <= allocated_elements

(* ============================ kernel_set_args ========================== *)

(* number of ArgumentWrapper parameters of the model of kernel_set_args *)
MaxKernelArgs == 4

(* largest start_argument_index of a call *)
MaxStartIndex == 2

(* everything but kernel_set_args and the error string *)
aroundArgVars == <<cacheVars, splitVars, memVars, schedVars, workerVars,
                   taskVars, allocVars, lateVars, tile_sample,
                   bd_pc, bd_split, bd_key, bd_exists, bd_result, bd_trace,
                   clbin_files, saved_by, cpProgram, cached_program, ndebug>>

(* a call of kernel_set_args: an argument is given (its pointer is the     *)
(* address of a variable) or default-constructed (its pointer is NULL)     *)
KernelSetArgs(args, start) ==
    /\ ksa_pc \in {"idle", "returned"}
    /\ ksa_args' = args
    /\ start_argument_index' = start
    /\ current_arg_index' = 0
    /\ set_arg_calls' = << >>
    /\ ksa_return' = 0
    /\ ksa_pc' = "handle_arg"
    /\ UNCHANGED error_msg
    /\ UNCHANGED aroundArgVars

(* FAKE_VARARG_HANDLE_ARG going on after an argument whose pointer is NULL *)
HandleArgSkipOmitted ==
    /\ ksa_pc = "handle_arg"
    /\ set_arg_calls' = set_arg_calls
    /\ IF current_arg_index + 1 < Len(ksa_args)
       THEN /\ current_arg_index' = current_arg_index + 1
            /\ UNCHANGED <<ksa_pc, ksa_return>>
       ELSE /\ ksa_return' = current_arg_index
            /\ ksa_pc' = "returned"
            /\ UNCHANGED current_arg_index
    /\ UNCHANGED <<ksa_args, start_argument_index, error_msg>>
    /\ UNCHANGED aroundArgVars

(* FAKE_VARARG_HANDLE_ARG of an argument whose pointer is NULL: return *)
HandleArgOmitted ==
    /\ ksa_pc = "handle_arg"
    /\ ksa_return' = current_arg_index
    /\ ksa_pc' = "returned"
    /\ UNCHANGED <<ksa_args, start_argument_index, current_arg_index,
                   set_arg_calls, error_msg>>
    /\ UNCHANGED aroundArgVars

(* FAKE_VARARG_HANDLE_ARG of the next argument, or the return after the    *)
(* last one; an error of clSetKernelArg is recorded by opencl_assert       *)
HandleArg(ok) ==
    /\ ksa_pc = "handle_arg"
    /\ IF current_arg_index >= Len(ksa_args)
       THEN /\ ok
            /\ ksa_return' = current_arg_index
            /\ ksa_pc' = "returned"
            /\ UNCHANGED <<ksa_args, start_argument_index, current_arg_index,
                           set_arg_calls, error_msg>>
            /\ UNCHANGED aroundArgVars
       ELSE IF ksa_args[current_arg_index + 1]
       THEN /\ set_arg_calls' =
                  Append(set_arg_calls,
                         [index |-> start_argument_index + current_arg_index,
                          arg |-> current_arg_index + 1])
            /\ error_msg' = IF ok THEN error_msg
                            ELSE opencl_error("OpenCL error: clSetKernelArg")
            /\ current_arg_index' = current_arg_index + 1
            /\ UNCHANGED <<ksa_pc, ksa_args, start_argument_index, ksa_return>>
            /\ UNCHANGED aroundArgVars
       ELSE ok /\ HandleArgOmitted

NextArgs ==
    \/ \E args \in [1..MaxKernelArgs -> BOOLEAN], start \in 0..MaxStartIndex :
          KernelSetArgs(args, start)
    \/ \E ok \in BOOLEAN : HandleArg(ok)

InitArgs ==
    /\ CacheUntouched /\ SplitIdle /\ MemIdle /\ SchedIdle /\ MegaIdle
    /\ NoTileYet
    /\ AuxIdle

SpecArgs == InitArgs /\ [][NextArgs]_vars

(* the number of arguments that are given before the first omitted one *)
LeadingArgs(args) ==
    CHOOSE n \in 0..Len(args) :
       /\ \A i \in 1..n : args[i]
       /\ n < Len(args) => ~args[n + 1]

(* C29: when kernel_set_args has returned, clSetKernelArg was called for   *)
(* the arguments before the first omitted one, in their order, at the      *)
(* indices start_argument_index, start_argument_index + 1, ..., for no     *)
(* argument after it, and the value returned is the number of these calls  *)
C29_KernelSetArgs ==
    ksa_pc = "returned" =>
       LET n == LeadingArgs(ksa_args) IN
       /\ ksa_return = n
       /\ set_arg_calls =
             [i \in 1..n |-> [index |-> start_argument_index + i - 1,
                              arg |-> i]]

(* a call with the second argument omitted and a later one given *)
C29_Witness ==
    /\ ksa_pc = "returned"
    /\ ksa_args[1] /\ ~ksa_args[2] /\ ksa_args[3]
    /\ start_argument_index = MaxStartIndex
    /\ ksa_return = 1

(* ================= get_split_tile_size: the halving order ============== *)

(* work items the device has room for in the example of the halving *)
ExampleFeasibleWorkItems == 8192

(* thread_run on a device with room for ExampleFeasibleWorkItems or for    *)
(* 2 * FeasibleStep work items                                             *)
InitHalve ==
    /\ CacheUntouched /\ SplitInit /\ SchedIdle /\ MegaIdle /\ NoTileYet
    /\ AuxIdle
    /\ \E f \in MemoryFigures :
          /\ invariable_mem_allocated = f.invariable
          /\ tile_specific_mem_allocated = f.tile_specific
          /\ scene_specific_mem_allocated = f.scene_specific
          /\ per_thread_memory_required = f.per_thread
          /\ total_allocatable_memory \in
                {f.invariable + f.tile_specific + f.scene_specific
                    + DATA_ALLOCATION_MEM_FACTOR + n * f.per_thread :
                 n \in {ExampleFeasibleWorkItems, 2 * FeasibleStep}}

SpecHalve == InitHalve /\ [][NextSplit]_vars

(* the 130 x 130 tile of the example, rounded, at the entry of the loop *)
ExampleAtLoopEntry ==
    /\ sp_pc = "get_split_tile_size"
    /\ feasible_global_work_size = ExampleFeasibleWorkItems
    /\ tile.w = 130 /\ tile.h = 130
    /\ d_w = 192 /\ d_h = 130

(* C30: a step of the loop that changes a dimension halves the longer of   *)
(* the two rounded dimensions, the width when they are equal, and rounds   *)
(* it up to the local size; for the 130 x 130 tile with 8192 feasible work *)
(* items the first dimension changed is the width                          *)
C30_HalvesLongerDimension ==
    [][(sp_pc = "get_split_tile_size" /\ <<d_w, d_h>>' # <<d_w, d_h>>) =>
          /\ IF d_w >= d_h
             THEN /\ d_w' = (((d_w \div 2 - 1) \div SPLIT_KERNEL_LOCAL_SIZE_X) + 1)
                               * SPLIT_KERNEL_LOCAL_SIZE_X
                  /\ d_h' = d_h
             ELSE /\ d_h' = (((d_h \div 2 - 1) \div SPLIT_KERNEL_LOCAL_SIZE_Y) + 1)
                               * SPLIT_KERNEL_LOCAL_SIZE_Y
                  /\ d_w' = d_w
          /\ ExampleAtLoopEntry => d_w' = 128 /\ d_h' = 130]_vars

(* the example after its first halving: the width went from 192 to 128 *)
C30_Witness ==
    /\ sp_pc = "get_split_tile_size"
    /\ feasible_global_work_size = ExampleFeasibleWorkItems
    /\ tile.w = 130 /\ tile.h = 130
    /\ d_w = 128 /\ d_h = 130

(* ================= path_trace: the iteration budget ==================== *)

(* C32: PathIteration_times is a positive multiple of                      *)
(* PATH_ITER_INC_FACTOR between the calls of path_trace and whenever a     *)
(* block of rounds starts, and the ray state is read only after a block of *)
(* at least one round                                                      *)
C32_BudgetPositiveMultiple ==
    /\ (sc_pc = "call" \/ (sc_pc = "iterate" /\ stage = 1 /\ PathIter = 0)) =>
           /\ PathIteration_times >= PATH_ITER_INC_FACTOR
           /\ PathIteration_times % PATH_ITER_INC_FACTOR = 0
           /\ PathIteration_times < UIntModulus
    /\ sc_pc = "poll" => PathIter >= 1 /\ PathIter = PathIteration_times

(* a call that started with PATH_ITER_INC_FACTOR rounds and needed no      *)
(* intervention: the decrease is floored                                   *)
C32_Witness ==
    /\ PathTraceReturned
    /\ numHostIntervention = 0
    /\ start_times = PATH_ITER_INC_FACTOR
    /\ PathIteration_times = PATH_ITER_INC_FACTOR

(* ================== path_trace: the loop terminates ==================== *)

(* largest PathIteration_times with which a call of path_trace is started *)
MaxStartBudget == 24

(* path_trace is called while the budget the device has reached is small *)
PathTraceDataInitInBudget ==
    PathIteration_times <= MaxStartBudget /\ PathTraceDataInit

NextSchedFair ==
    \/ PathTraceDataInitInBudget
    \/ EnqueueStage
    \/ ForLoopExit
    \/ PollRayState
    \/ EnqueueSumAllRadiance

(* the worker goes on as long as it can: thread_run is a sequential        *)
(* program, each of its steps is taken once it is enabled                  *)
SpecSchedFair ==
    InitSched /\ [][NextSchedFair]_vars /\ WF_vars(NextSchedFair)

(* C33: with kernels that turn at least one active ray state inactive per  *)
(* round and reactivate none, every call of path_trace that has entered    *)
(* its loop leaves it and enqueues SumAllRadiance                          *)
C33_LoopTerminates ==
    (sc_pc = "iterate") ~> (sc_pc = "call" /\ last_enqueued = "SumAllRadiance")

(* a call that returned after reading the ray state more than once *)
C33_Witness ==
    /\ PathTraceReturned
    /\ numHostIntervention >= 1
    /\ ~activeRaysAvailable
    /\ rounds_run * flips_per_round >= NumRayStates(global_size)


(* ---------------------- cache: absence of deadlock --------------------- *)

(* thread t waits for OpenCLCache::cache_lock at the head of get_something *)
(* or store_something                                                      *)
BlockedOnCacheLock(t) == pc[t] \in {"get", "store"} /\ cache_lock # 0

(* thread t waits for the mutex of its slot in get_something *)
BlockedOnSlotLock(t) ==
    /\ pc[t] = "get_lock_slot"
    /\ key[t] \in DOMAIN cache
    /\ cache[key[t]].mutex # 0

Unfinished(t) == pc[t] \notin {"done", "failed"}

(* C34: the Resource Cache is deadlock-free.  In every state reached by    *)
(* threads running get_context / get_program and store_context /           *)
(* store_program (a thread stores only after a get that returned NULL, or  *)
(* abandons, which releases its slot lock), if some thread is unfinished   *)
(* then some unfinished thread waits neither for the cache lock nor for a  *)
(* slot lock, and can take its next step.                                  *)
C34_DeadlockFree ==
    (\E t \in Threads : Unfinished(t)) =>
        \E t \in Threads :
            /\ Unfinished(t)
            /\ ~BlockedOnCacheLock(t)
            /\ ~BlockedOnSlotLock(t)
            /\ ENABLED ThreadStep(t)

(* a get waits for the slot mutex while its owner, the creator, is inside  *)
(* store_something with the cache lock                                     *)
C34_Witness ==
    \E t \in Threads : \E u \in Threads :
        /\ t # u
        /\ BlockedOnSlotLock(t)
        /\ cache[key[t]].mutex = u
        /\ pc[u] = "store_find"
        /\ cache_lock = u


(* -------------------- cache: flush while in use ------------------------ *)

(* what flush and the use of a destroyed Slot leave alone outside the cache *)
aroundFlushVars == <<splitVars, memVars, schedVars, workerVars, taskVars,
                     buildVars, allocVars, argVars, lifeVars, splitTilesVars,
                     nameVars, createVars, megaTaskVars,
                      closureVars,
                      tile_sample>>

(* the threads that hold a reference to their Slot, its mutex or its map   *)
(* position: from the insert in get_something to the unlock in             *)
(* store_something                                                         *)
SlotUsers ==
    {t \in Threads : pc[t] \in {"get_lock_slot", "get_check"} \cup CreatorPcs}

(* flush() is a public static function that only waits for the cache lock: *)
(* it releases the cached resources and clears the map, which destroys     *)
(* every Slot and deletes its mutex, whoever refers to it                  *)
FlushAnyTime ==
    /\ cache_lock = 0
    /\ DOMAIN cache # {}
    /\ refcount' = [h \in Handles |->
                      IF h \in CachedHandles THEN refcount[h] - 1 ELSE refcount[h]]
    /\ cache' = [k \in {} |-> EmptySlot]
    /\ flushed' = flushed \cup SlotUsers
    /\ UNCHANGED <<key, devtype, pc, member, cache_lock, slot_locker, dev, created,
                   blocked_behind>>
    /\ UNCHANGED aroundFlushVars

(* a thread whose Slot was destroyed locks or unlocks the deleted mutex,   *)
(* reads the member of the destroyed Slot, or reaches the sanity check of  *)
(* store_something: the behaviour is undefined (the assert aborts a debug  *)
(* build)                                                                  *)
DanglingSlotUse(t) ==
    /\ t \in flushed
    /\ pc[t] \in {"get_lock_slot", "get_check", "create", "store_set"}
    /\ pc' = [pc EXCEPT ![t] = "undefined"]
    /\ UNCHANGED <<key, devtype, member, cache, cache_lock, slot_locker, dev,
                   refcount, created, blocked_behind>>
    /\ UNCHANGED flushed
    /\ UNCHANGED aroundFlushVars

(* the steps of a thread that do not touch its destroyed Slot *)
StepBesideSlot(t) ==
    /\ t \in flushed
    /\ CreateOk(t) \/ StoreLockCache(t) \/ StoreFindUnlock(t)

(* the steps of a thread whose Slot exists *)
StepOnSlot(t) == t \notin flushed /\ ThreadStep(t)

NextFlush ==
    \/ \E t \in Threads : StepOnSlot(t)
    \/ \E t \in Threads : StepBesideSlot(t)
    \/ \E t \in Threads : DanglingSlotUse(t)
    \/ FlushAnyTime

SpecFlush == Init /\ [][NextFlush]_vars

(* C35: the sanity checks of store_something hold in every interleaving of *)
(* get, store and flush: when a thread reaches them, the slot of its key   *)
(* is in the map and the member it stores is still NULL.                   *)
C35_SanityChecksHold ==
    \A t \in Threads :
        pc[t] = "store_set" =>
            /\ key[t] \in DOMAIN cache
            /\ cache[key[t]][member[t]] = NULL


(* ---------------------- cache: device lifetimes ------------------------ *)

(* what construction, load_kernels and destruction of a device leave alone *)
(* outside the cache                                                       *)
aroundLifeVars == <<splitVars, memVars, schedVars, workerVars, taskVars,
                    buildVars, allocVars, argVars, flushVars, splitTilesVars,
                    nameVars, createVars, megaTaskVars,
                     closureVars,
                     tile_sample>>

(* the resources the destructors release: cxContext, cpProgram and, in a   *)
(* megakernel device, path_trace_program, each if it is not NULL           *)
HeldHandles(t) == {dev[t][m] : m \in Members} \ {NULL}

(* Mutant of DeviceDestructor: the destructor releases each resource twice. *)
DeviceDestructorTwice(t) ==
    /\ pc[t] \in {"done", "failed"}
    /\ refcount' = [h \in Handles |->
                      IF h \in HeldHandles(t) THEN refcount[h] - 2 ELSE refcount[h]]
    /\ pc' = [pc EXCEPT ![t] = "destroyed"]
    /\ UNCHANGED <<key, devtype, member, cache, cache_lock, slot_locker, dev,
                   created, blocked_behind>>
    /\ UNCHANGED <<lifeVars, aroundLifeVars>>

(* ~OpenCLDeviceMegaKernel and ~OpenCLDeviceBase: clReleaseProgram and     *)
(* clReleaseContext, once for each resource the device holds               *)
DeviceDestructor(t) ==
    /\ pc[t] \in {"done", "failed"}
    /\ refcount' = [h \in Handles |->
                      IF h \in HeldHandles(t) THEN refcount[h] - 1 ELSE refcount[h]]
    /\ pc' = [pc EXCEPT ![t] = "destroyed"]
    /\ UNCHANGED <<key, devtype, member, cache, cache_lock, slot_locker, dev,
                   created, blocked_behind>>
    /\ UNCHANGED <<lifeVars, aroundLifeVars>>

(* load_kernels is called again on a device whose kernels are loaded *)
LoadKernelsAgain(t) ==
    /\ pc[t] = "done"
    /\ loads < MaxLoads
    /\ loads' = loads + 1
    /\ member' = [member EXCEPT ![t] = "ocl_dev_base_program"]
    /\ pc' = [pc EXCEPT ![t] = "get"]
    /\ UNCHANGED <<key, devtype, cache, cache_lock, slot_locker, dev, refcount,
                   created, blocked_behind>>
    /\ UNCHANGED aroundLifeVars

(* thread t is between two calls of the cache: before get_something, after *)
(* load_kernels, or without a device                                       *)
BetweenCalls(t) == pc[t] \in {"get", "done", "failed", "destroyed"}

(* the constructions, load_kernels calls and destructions form a sequence: *)
(* a thread goes on with its get and store while the others are between    *)
(* two calls                                                               *)
StepInSequence(t) ==
    /\ \A u \in Threads \ {t} : BetweenCalls(u)
    /\ ThreadStep(t)

NextLife ==
    \/ \E t \in Threads : StepInSequence(t)
    \/ \E t \in Threads : DeviceDestructor(t)
    \/ \E t \in Threads : LoadKernelsAgain(t)

(* the device instances use one device, the slot of one key; an instance  *)
(* that starts after another one is destroyed is a later construction     *)
InitLife == Init /\ \A t \in Threads : key[t] = 1

SpecLife == InitLife /\ [][NextLife]_vars

(* C36: without flush, over the constructions, load_kernels calls and      *)
(* destructions of devices, every context or program in the cache has      *)
(* reference count >= 1, and the handle a get is about to return has not   *)
(* been freed.                                                             *)
C36_CachedHandleAlive ==
    /\ \A h \in CachedHandles : refcount[h] >= 1
    /\ \A t \in Threads :
          pc[t] = "get_retain" => refcount[dev[t][member[t]]] >= 1

(* the device that created the context is destroyed, the context is left   *)
(* with the reference of the cache alone, and a later get returns it       *)
C36_Witness ==
    \E t \in Threads : \E u \in Threads :
        /\ pc[t] = "destroyed"
        /\ pc[u] = "get_retain"
        /\ member[u] = "context"
        /\ dev[u]["context"] = NewHandle(t, "context")
        /\ "context" \in created[t]
        /\ refcount[dev[u]["context"]] = 1


(* ------------------------ split_tiles on its own ----------------------- *)

(* what a call of split_tiles leaves alone *)
aroundSplitTilesVars == <<cacheVars, splitVars, memVars, schedVars, workerVars,
                          taskVars, buildVars, allocVars, argVars, flushVars,
                          lifeVars, nameVars, createVars, megaTaskVars,
                           closureVars,
                           tile_sample>>

(* the tiles split_tiles is called with: a rectangle of the frame buffer   *)
(* whose pixels have non-negative indices offset + x + y * stride, with    *)
(* the sample range and the buffers of the task                            *)
RenderTiles ==
    {rt \in [x : {0, MaxOrigin}, y : {0, 2 * MaxOrigin},
             w : TileExtents, h : TileExtents,
             stride : {MaxTileExtent, 2 * MaxTileExtent + MaxOrigin},
             offset : {0, 3, 0 - MaxOrigin},
             start_sample : 0..1, num_samples : {MaxSamples},
             sample : 0..1, resolution : {1},
             tile_size : {[x |-> MaxTileExtent, y |-> MaxTileExtent]},
             buffers : {"buffers"}, buffer : {"buffer"},
             rng_state : {"rng_state"}] :
        /\ rt.x + rt.w <= rt.stride
        /\ rt.offset + rt.x + rt.y * rt.stride >= 0
        /\ rt.sample = rt.start_sample}

(* the sizes get_split_tile_size returns: a multiple of the local size in  *)
(* each dimension                                                          *)
SplitTileSizes ==
    [x : {SPLIT_KERNEL_LOCAL_SIZE_X, 2 * SPLIT_KERNEL_LOCAL_SIZE_X},
     y : {1, MaxTileExtent \div 4, MaxTileExtent \div 2 + 1, MaxTileExtent}]

InitSplitTiles ==
    /\ CacheInit /\ SplitIdle /\ MemIdle /\ SchedIdle /\ MegaIdle /\ NoTileYet
    /\ TaskRunning /\ BuildIdle /\ AllocIdle /\ ArgsIdle /\ FlushIdle /\ LifeIdle
    /\ NamesIdle /\ CreateIdle
    /\ MegaTaskIdle /\ ClosureIdle
    /\ \A t \in Threads : key[t] = 1 /\ devtype[t] = "split"
    /\ st_pc = "call"
    /\ st_rtile \in RenderTiles
    /\ st_split \in SplitTileSizes
    /\ st_tiles = << >>

(* vector<RenderTile> to_path_trace_render_tiles = split_tiles(tile, split_tile_size) *)
SplitTilesCall ==
    /\ st_pc = "call"
    /\ st_tiles' = split_tiles(st_rtile, st_split)
    /\ st_pc' = "returned"
    /\ UNCHANGED <<st_rtile, st_split>>
    /\ UNCHANGED aroundSplitTilesVars

NextSplitTiles == SplitTilesCall

SpecSplitTiles == InitSplitTiles /\ [][NextSplitTiles]_vars

(* C37: every sub-tile split_tiles returns keeps the tile's sample range   *)
(* (start_sample, num_samples, sample), its buffer and rng_state handles,  *)
(* offset, resolution and tile_size; sub-tile (i, j) has origin            *)
(* (x + i*sx, y + j*sy), buffer and rng-state offsets shifted by           *)
(* (i*sx, j*sy) from the position of the tile in the frame buffer, and     *)
(* buffer_rng_state_stride equal to the tile's stride; the sub-tiles are   *)
(* stored row by row.                                                      *)
C37_SubTileFields ==
    st_pc = "returned" =>
        LET nx == (st_rtile.w - 1) \div st_split.x + 1
            ny == (st_rtile.h - 1) \div st_split.y + 1
            pos == st_rtile.offset + st_rtile.x + st_rtile.y * st_rtile.stride
            pos_x == pos % st_rtile.stride
            pos_y == pos \div st_rtile.stride
        IN  /\ Len(st_tiles) = nx * ny
            /\ \A j \in 0..(ny - 1) : \A i \in 0..(nx - 1) :
                  LET sub == st_tiles[j * nx + i + 1]
                  IN  /\ sub.start_sample = st_rtile.start_sample
                      /\ sub.num_samples = st_rtile.num_samples
                      /\ sub.sample = st_rtile.sample
                      /\ sub.buffer = st_rtile.buffer
                      /\ sub.rng_state = st_rtile.rng_state
                      /\ sub.offset = st_rtile.offset
                      /\ sub.resolution = st_rtile.resolution
                      /\ sub.tile_size = st_rtile.tile_size
                      /\ sub.x = st_rtile.x + i * st_split.x
                      /\ sub.y = st_rtile.y + j * st_split.y
                      /\ sub.buffer_offset_x = pos_x + i * st_split.x
                      /\ sub.buffer_offset_y = pos_y + j * st_split.y
                      /\ sub.rng_state_offset_x = pos_x + i * st_split.x
                      /\ sub.rng_state_offset_y = pos_y + j * st_split.y
                      /\ sub.buffer_rng_state_stride = st_rtile.stride

(* a tile away from the origin of the frame buffer, with a sample range    *)
(* that does not start at 0, split into more than one row and column       *)
C37_Witness ==
    /\ st_pc = "returned"
    /\ Len(st_tiles) >= 6
    /\ st_rtile.x > 0 /\ st_rtile.y > 0 /\ st_rtile.offset # 0
    /\ st_rtile.start_sample > 0
    /\ st_tiles[2].x > st_rtile.x
    /\ st_tiles[2].y = st_rtile.y
    /\ st_tiles[Len(st_tiles)].y > st_rtile.y
    /\ st_tiles[Len(st_tiles)].x > st_rtile.x


(* ------------------------ artifact file names -------------------------- *)

(* what forming a file name leaves alone *)
aroundNameVars == <<cacheVars, splitVars, memVars, schedVars, workerVars,
                    taskVars, buildVars, allocVars, argVars, flushVars,
                    lifeVars, splitTilesVars, createVars, megaTaskVars,
                     closureVars,
                     tile_sample>>

(* the names of LOAD_KERNEL: the eleven programs of the split kernel *)
SplitProgramNames ==
    {"DataInit", "SceneIntersect", "LampEmission", "QueueEnqueue",
     "Background_BufferUpdate", "ShaderEval",
     "Holdout_Emission_Blurring_Pathtermination_AO", "DirectLighting",
     "ShadowBlocked", "NextIterationSetUp", "SumAllRadiance"}

ProgramNames == {"base", "megakernel"} \cup SplitProgramNames

(* opencl_kernel_build_options(platform_name), as a sequence of options *)
opencl_kernel_build_options(platform) ==
    <<"-cl-fast-relaxed-math">> \o
    (CASE platform = "NVIDIA CUDA" ->
              <<"-D__KERNEL_OPENCL_NVIDIA__", "-cl-nv-maxrregcount=32", "-cl-nv-verbose">>
       [] platform = "Apple" -> <<"-D__KERNEL_OPENCL_APPLE__">>
       [] platform = "AMD Accelerated Parallel Processing" ->
              <<"-D__KERNEL_OPENCL_AMD__">>
       [] platform = "Intel(R) OpenCL" -> <<"-D__KERNEL_OPENCL_INTEL_CPU__">>
       [] OTHER -> << >>)

(* custom_kernel_build_options of the three load_kernels *)
custom_kernel_build_options(program, max_closure) ==
    CASE program = "base" -> << >>
      [] program = "megakernel" -> <<"-D__COMPILE_ONLY_MEGAKERNEL__">>
      [] OTHER -> <<"-D__SPLIT_KERNEL__", "-D__MAX_CLOSURE__=",
                    ToString(max_closure), "-D__WORK_STEALING__">>

(* MD5Hash: append adds the bytes to the stream that is hashed, get_hex is *)
(* a function of that stream.  The digest is taken to be free of           *)
(* collisions: it stands for the stream.                                   *)
md5_get_hex(stream) == stream

(* device_md5_hash(kernel_custom_build_options) of the device of key k *)
device_md5_hash(k, kernel_custom_build_options) ==
    md5_get_hex(k.vendor \o k.version \o k.name \o k.driver
                \o opencl_kernel_build_options(k.platform_name)
                \o kernel_custom_build_options)

(* string_printf("cycles_kernel_%s_%s.clbin", device_md5, kernel_md5), and *)
(* "cycles_kernel_%s_%s_" name ".clbin" in LOAD_KERNEL                     *)
clbin_name(k) ==
    <<"cycles_kernel_",
      device_md5_hash(k, custom_kernel_build_options(k.program, k.max_closure)),
      "_", k.kernel_md5,
      IF k.program \in SplitProgramNames THEN <<"_", k.program>> ELSE << >>,
      ".clbin">>

(* the programs a file name is formed for: device strings as sequences of  *)
(* characters, the checksum of the kernel sources, the program and the     *)
(* closure count of the split kernel                                       *)
NameKeys ==
    [vendor : {<<"V">>}, version : {<<"2">>},
     name : {<<"G", "P", "U">>, <<"G", "P", "U", "1">>},
     driver : {<<"0">>, <<"1", "0">>},
     platform_name : {"AMD Accelerated Parallel Processing", "NVIDIA CUDA"},
     kernel_md5 : BuildKeys,
     program : ProgramNames,
     max_closure : {5, 10}]

InitNames ==
    /\ CacheInit /\ SplitIdle /\ MemIdle /\ SchedIdle /\ MegaIdle /\ NoTileYet
    /\ TaskRunning /\ BuildIdle /\ AllocIdle /\ ArgsIdle /\ FlushIdle /\ LifeIdle
    /\ SplitTilesIdle /\ CreateIdle
    /\ MegaTaskIdle /\ ClosureIdle
    /\ \A t \in Threads : key[t] = 1 /\ devtype[t] = "split"
    /\ nm_keys \in {ks \in [1..2 -> NameKeys] :
                      /\ ks[1].platform_name = "AMD Accelerated Parallel Processing"
                      /\ ks[1].kernel_md5 = 1
                      /\ ks[1].max_closure = 5}
    /\ nm_clbin = [i \in 1..2 |-> << >>]

(* load_kernels forms the clbin name of program i *)
FormClbinName(i) ==
    /\ nm_keys # << >>
    /\ nm_clbin[i] = << >>
    /\ nm_clbin' = [nm_clbin EXCEPT ![i] = clbin_name(nm_keys[i])]
    /\ UNCHANGED nm_keys
    /\ UNCHANGED aroundNameVars

NextNames == \E i \in 1..2 : FormClbinName(i)

SpecNames == InitNames /\ [][NextNames]_vars

(* ProgramKey: device identity, build options, source checksum, program *)
ProgramKey(k) ==
    <<k.vendor, k.version, k.name, k.driver,
      opencl_kernel_build_options(k.platform_name)
         \o custom_kernel_build_options(k.program, k.max_closure),
      k.kernel_md5, k.program>>

(* C38: artifact file names are injective in the program key.  Two         *)
(* programs that differ in the device identity strings, the build options, *)
(* the source checksum or the program (base, megakernel, one of the eleven *)
(* split-kernel programs) have different file names.                       *)
C38_FileNamesInjective ==
    (nm_keys # << >> /\ nm_clbin[1] # << >> /\ nm_clbin[2] # << >>) =>
        (ProgramKey(nm_keys[1]) # ProgramKey(nm_keys[2]) =>
            nm_clbin[1] # nm_clbin[2])


(* ------------------------ device_opencl_create ------------------------- *)

(* what device_opencl_create leaves alone *)
aroundCreateVars == <<cacheVars, splitVars, memVars, schedVars, workerVars,
                      taskVars, buildVars, allocVars, argVars, flushVars,
                      lifeVars, splitTilesVars, nameVars, megaTaskVars,
                       closureVars,
                       tile_sample>>

PlatformNames ==
    {"AMD Accelerated Parallel Processing", "NVIDIA CUDA", "Apple",
     "Intel(R) OpenCL"}

DeviceTypes ==
    {"CL_DEVICE_TYPE_GPU", "CL_DEVICE_TYPE_CPU", "CL_DEVICE_TYPE_ACCELERATOR",
     "CL_DEVICE_TYPE_DEFAULT"}

(* get_platform_and_devicetype: it returns true with both outputs written  *)
(* when the device is found, true with neither written when info.num is    *)
(* beyond the devices of all platforms, and false after an error, with the *)
(* outputs written or not                                                  *)
DetectionOutcomes ==
    [ok : {TRUE}, platform_name : PlatformNames, device_type : DeviceTypes]
       \cup {[ok |-> TRUE, platform_name |-> "", device_type |-> "unset"]}
       \cup [ok : {FALSE}, platform_name : PlatformNames \cup {""},
             device_type : DeviceTypes \cup {"unset"}]

(* Mutant of device_opencl_create: the force flag is looked at before the  *)
(* result of the detection.                                                *)
device_opencl_create_force_first(detect, force, type_is_gpu) ==
    IF force \/ (detect.ok
                 /\ detect.platform_name = "AMD Accelerated Parallel Processing"
                 /\ type_is_gpu)
    THEN "OpenCLDeviceSplitKernel"
    ELSE "OpenCLDeviceMegaKernel"

(* device_opencl_create: the class of the device that is constructed;      *)
(* type_is_gpu is the value of device_type == CL_DEVICE_TYPE_GPU           *)
device_opencl_create(detect, force, type_is_gpu) ==
    IF detect.ok
    THEN IF force \/ (detect.platform_name = "AMD Accelerated Parallel Processing"
                      /\ type_is_gpu)
         THEN "OpenCLDeviceSplitKernel"
         ELSE "OpenCLDeviceMegaKernel"
    ELSE "OpenCLDeviceMegaKernel"

InitCreate ==
    /\ CacheInit /\ SplitIdle /\ MemIdle /\ SchedIdle /\ MegaIdle /\ NoTileYet
    /\ TaskRunning /\ BuildIdle /\ AllocIdle /\ ArgsIdle /\ FlushIdle /\ LifeIdle
    /\ SplitTilesIdle /\ NamesIdle
    /\ MegaTaskIdle /\ ClosureIdle
    /\ \A t \in Threads : key[t] = 1 /\ devtype[t] = "split"
    /\ doc_pc = "call"
    /\ doc_detect \in DetectionOutcomes
    /\ force_split_kernel \in BOOLEAN
    /\ doc_device = "none"

(* the call of device_opencl_create; a device_type that was not written    *)
(* compares with CL_DEVICE_TYPE_GPU either way                             *)
DeviceOpenclCreate ==
    /\ doc_pc = "call"
    /\ \E type_is_gpu \in IF doc_detect.device_type = "unset" THEN BOOLEAN
                          ELSE {doc_detect.device_type = "CL_DEVICE_TYPE_GPU"} :
          doc_device' = device_opencl_create(doc_detect, force_split_kernel,
                                             type_is_gpu)
    /\ doc_pc' = "returned"
    /\ UNCHANGED <<doc_detect, force_split_kernel>>
    /\ UNCHANGED aroundCreateVars

NextCreate == DeviceOpenclCreate

SpecCreate == InitCreate /\ [][NextCreate]_vars

(* C39: device_opencl_create constructs the split-kernel device if and     *)
(* only if get_platform_and_devicetype succeeded and the force flag is set *)
(* or the platform is AMD and the device is a GPU; in every other case,    *)
(* a failed detection included, it constructs the megakernel device.       *)
C39_PipelineSelection ==
    doc_pc = "returned" =>
        LET split ==
               /\ doc_detect.ok
               /\ \/ force_split_kernel
                  \/ /\ doc_detect.platform_name = "AMD Accelerated Parallel Processing"
                     /\ doc_detect.device_type = "CL_DEVICE_TYPE_GPU"
        IN  /\ split <=> doc_device = "OpenCLDeviceSplitKernel"
            /\ ~split <=> doc_device = "OpenCLDeviceMegaKernel"

(* the detection fails while the force flag is set: the megakernel device *)
C39_Witness ==
    /\ doc_pc = "returned"
    /\ ~doc_detect.ok
    /\ force_split_kernel
    /\ doc_detect.platform_name = "AMD Accelerated Parallel Processing"
    /\ doc_detect.device_type = "CL_DEVICE_TYPE_GPU"
    /\ doc_device = "OpenCLDeviceMegaKernel"


(* ============ the megakernel worker and the cancel signal ============== *)

(* what the steps of the megakernel worker on a cancellable task leave alone *)
aroundMegaTaskVars == <<cacheVars, splitVars, memVars, schedVars, buildVars,
                        allocVars, argVars, flushVars, lifeVars, splitTilesVars,
                        nameVars, createVars, closureVars,
                         tile_sample>>

(* the task: a PATH_TRACE task that is not cancelled yet *)
InitMegaTask ==
    /\ CacheInit
    /\ key = [t \in Threads |-> 1]
    /\ devtype = [t \in Threads |-> "mega"]
    /\ SplitIdle /\ MemIdle /\ SchedIdle /\ MegaInit /\ NoTileYet
    /\ TaskRunning /\ BuildIdle /\ AllocIdle /\ ArgsIdle
    /\ LateIdle

(* while(task->acquire_tile(this, tile)): a tile is handed out, with its   *)
(* sample range; start_sample and end_sample are set                       *)
MegaTaskAcquireTile ==
    /\ mk_pc = "acquire"
    /\ mk_tiles_left > 0
    /\ mk_tiles_left' = mk_tiles_left - 1
    /\ \E tile_start \in 0..1, tile_samples \in 0..MaxSamples :
          /\ mk_tile' = [start_sample |-> tile_start,
                         num_samples |-> tile_samples, sample |-> tile_start]
          /\ sample' = tile_start
          /\ end_sample' = tile_start + tile_samples
    /\ mk_dispatched' = << >>
    /\ mk_cancel_seen' = 0 - 1
    /\ mk_pc' = "samples"
    /\ num_acquired' = num_acquired + 1
    /\ UNCHANGED <<need_finish_queue, num_released, cq_pending>>
    /\ UNCHANGED <<taskVars, aroundMegaTaskVars>>

(* acquire_tile returns false: the task is done *)
MegaTaskAcquireNone ==
    /\ mk_pc = "acquire"
    /\ mk_pc' = "done"
    /\ UNCHANGED <<mk_tiles_left, need_finish_queue, sample, end_sample,
                   num_acquired, num_released, cq_pending>>
    /\ UNCHANGED <<megaTaskVars, taskVars, aroundMegaTaskVars>>

(* Mutant of MegaTaskGetCancel: the loop is left on cancel whatever        *)
(* need_finish_queue is.                                                   *)
MegaTaskGetCancelAlwaysBreak ==
    /\ mk_pc = "samples"
    /\ sample < end_sample
    /\ mk_cancel_seen' = IF cancel /\ mk_cancel_seen < 0
                         THEN Len(mk_dispatched) ELSE mk_cancel_seen
    /\ mk_pc' = IF cancel THEN "finish" ELSE "path_trace"
    /\ UNCHANGED <<mk_tiles_left, need_finish_queue, sample, end_sample,
                   num_acquired, num_released, cq_pending>>
    /\ UNCHANGED <<mk_tile, mk_dispatched, taskVars, aroundMegaTaskVars>>

(* sample < end_sample; if(task->get_cancel()) { if(task->need_finish_queue *)
(* == false) break; }                                                      *)
MegaTaskGetCancel ==
    /\ mk_pc = "samples"
    /\ sample < end_sample
    /\ mk_cancel_seen' = IF cancel /\ mk_cancel_seen < 0
                         THEN Len(mk_dispatched) ELSE mk_cancel_seen
    /\ mk_pc' = IF cancel /\ ~need_finish_queue THEN "finish" ELSE "path_trace"
    /\ UNCHANGED <<mk_tiles_left, need_finish_queue, sample, end_sample,
                   num_acquired, num_released, cq_pending>>
    /\ UNCHANGED <<mk_tile, mk_dispatched, taskVars, aroundMegaTaskVars>>

(* path_trace(tile, sample); tile.sample = sample + 1; sample++ *)
MegaTaskPathTrace ==
    /\ mk_pc = "path_trace"
    /\ cq_pending' = cq_pending + 1
    /\ mk_dispatched' = Append(mk_dispatched, sample)
    /\ mk_tile' = [mk_tile EXCEPT !.sample = sample + 1]
    /\ sample' = sample + 1
    /\ mk_pc' = "samples"
    /\ UNCHANGED <<mk_tiles_left, need_finish_queue, end_sample,
                   num_acquired, num_released>>
    /\ UNCHANGED <<mk_cancel_seen, taskVars, aroundMegaTaskVars>>

(* the sample loop is over: clFinish(cqCommandQueue); release_tile(tile) *)
MegaTaskReleaseTile ==
    /\ mk_pc = "finish" \/ (mk_pc = "samples" /\ ~(sample < end_sample))
    /\ cq_pending' = 0
    /\ num_released' = num_released + 1
    /\ mk_pc' = "acquire"
    /\ sample' = 0
    /\ end_sample' = 0
    /\ UNCHANGED <<mk_tiles_left, need_finish_queue, num_acquired>>
    /\ UNCHANGED <<megaTaskVars, taskVars, aroundMegaTaskVars>>

(* the render is cancelled (by another thread) while the worker runs *)
MegaTaskCancel ==
    /\ mk_pc # "done"
    /\ TaskCancel

NextMegaTask ==
    \/ MegaTaskAcquireTile
    \/ MegaTaskAcquireNone
    \/ MegaTaskGetCancel
    \/ MegaTaskPathTrace
    \/ MegaTaskReleaseTile
    \/ MegaTaskCancel

SpecMegaTask == InitMegaTask /\ [][NextMegaTask]_vars

(* the tile the worker acquired last has been released *)
MegaTileReleased == mk_pc \in {"acquire", "done"} /\ num_acquired >= 1

(* C40: in the megakernel worker the samples of a tile are dispatched in   *)
(* increasing order from start_sample and tile.sample is the last          *)
(* dispatched sample plus one; once get_cancel() returned true with        *)
(* need_finish_queue false no further sample of the tile is dispatched,    *)
(* the worker goes on to the barrier and the release, and the tile is      *)
(* released with nothing pending; with need_finish_queue true every sample *)
(* of the tile is dispatched, cancelled or not.                            *)
C40_MegaSamplesAndCancel ==
    /\ \A i \in DOMAIN mk_dispatched :
          mk_dispatched[i] = mk_tile.start_sample + i - 1
    /\ mk_dispatched # << >> =>
          mk_tile.sample = mk_dispatched[Len(mk_dispatched)] + 1
    /\ (~need_finish_queue /\ mk_cancel_seen >= 0) =>
          /\ Len(mk_dispatched) = mk_cancel_seen
          /\ mk_pc \in {"finish", "acquire", "done"}
          /\ mk_pc = "finish" => ENABLED MegaTaskReleaseTile
    /\ MegaTileReleased =>
          /\ num_released = num_acquired
          /\ cq_pending = 0
          /\ need_finish_queue => Len(mk_dispatched) = mk_tile.num_samples

(* the task is cancelled after the first of two samples of a tile: without  *)
(* need_finish_queue the tile is released with one sample dispatched        *)
C40_Witness ==
    /\ MegaTileReleased
    /\ ~need_finish_queue
    /\ mk_cancel_seen = 1
    /\ mk_tile.num_samples = 2
    /\ mk_tile.start_sample = 1
    /\ mk_dispatched = <<1>>
    /\ mk_tile.sample = 2


(* ================ the closure count of the loaded kernels ============== *)

(* what load_kernels and the allocation of path_trace leave alone; of the  *)
(* state of path_trace only first_tile is looked at                        *)
aroundClosureVars == <<cacheVars, splitVars, memVars, workerVars, taskVars,
                       buildVars, allocVars, argVars, flushVars, lifeVars,
                       splitTilesVars, nameVars, createVars, megaTaskVars,
                       tile_sample,
                       sc_pc, PathIteration_times, numHostIntervention,
                       numNextPathIterTimes, PathIter, stage,
                       activeRaysAvailable, ray_state, hostRayStateArray,
                       flips_per_round, last_enqueued, num_enqueued, rounds_run,
                       start_times, dispatch_failed>>

(* a split-kernel device after its constructor: current_clos_max = -1,     *)
(* first_tile = true; the render is offline or interactive                 *)
InitClosure ==
    /\ CacheInit
    /\ key = [t \in Threads |-> 1]
    /\ devtype = [t \in Threads |-> "split"]
    /\ SplitIdle /\ MemIdle /\ SchedIdle /\ MegaIdle /\ NoTileYet
    /\ TaskRunning /\ BuildIdle /\ AllocIdle /\ ArgsIdle
    /\ FlushIdle /\ LifeIdle /\ SplitTilesIdle /\ NamesIdle /\ CreateIdle
    /\ MegaTaskIdle
    /\ background \in BOOLEAN
    /\ current_clos_max = 0 - 1
    /\ cl_pc = "idle"
    /\ budget_clos_max = 0 - 1
    /\ allocated_clos_max = 0 - 1

(* max_closure of load_kernels: requested_features.max_closure, in an      *)
(* interactive render rounded up to a multiple of 5.  The requests of the  *)
(* model stay below MAX_CLOSURE, which this file does not define: the cap  *)
(* leaves them as they are.                                                *)
LoadKernelsMaxClosure(requested, is_background) ==
    IF is_background THEN requested ELSE (CDiv(requested - 1, 5) + 1) * 5

(* OpenCLDeviceSplitKernel::load_kernels between two tasks: it returns     *)
(* early when the interactive render asks for the closure count the        *)
(* kernels have, it fails without a new kernel, or it builds the programs  *)
(* and kernels and sets current_clos_max                                   *)
SplitLoadKernels ==
    /\ cl_pc = "idle"
    /\ \E requested \in 1..MaxClosureRequest, built \in BOOLEAN :
          LET max_closure == LoadKernelsMaxClosure(requested, background)
          IN  current_clos_max' =
                 IF ~background /\ current_clos_max = max_closure
                 THEN current_clos_max
                 ELSE IF built THEN max_closure ELSE current_clos_max
    /\ UNCHANGED <<background, cl_pc, budget_clos_max, allocated_clos_max>>
    /\ UNCHANGED first_tile
    /\ UNCHANGED aroundClosureVars

(* thread_run acquires the first tile of a task:                           *)
(* get_feasible_global_work_size calls get_per_thread_memory, which uses   *)
(* get_shader_closure_size(current_clos_max)                               *)
ThreadRunCheckFeasibility ==
    /\ cl_pc = "idle"
    /\ current_clos_max > 0
    /\ budget_clos_max' = current_clos_max
    /\ cl_pc' = "tile"
    /\ UNCHANGED <<background, current_clos_max, allocated_clos_max>>
    /\ UNCHANGED first_tile
    /\ UNCHANGED aroundClosureVars

(* path_trace: if(first_tile) closure_sd and closure_sd_DL_shadow are      *)
(* allocated with get_shader_closure_size(current_clos_max); at the end    *)
(* first_tile = false                                                      *)
PathTraceAllocateClosures ==
    /\ cl_pc = "tile"
    /\ allocated_clos_max' =
          IF first_tile THEN current_clos_max ELSE allocated_clos_max
    /\ first_tile' = FALSE
    /\ cl_pc' = "tile_done"
    /\ UNCHANGED <<background, current_clos_max, budget_clos_max>>
    /\ UNCHANGED aroundClosureVars

(* release_tile; the worker acquires another tile of the task *)
ThreadRunNextTile ==
    /\ cl_pc = "tile_done"
    /\ cl_pc' = "tile"
    /\ UNCHANGED <<background, current_clos_max, budget_clos_max,
                   allocated_clos_max>>
    /\ UNCHANGED first_tile
    /\ UNCHANGED aroundClosureVars

(* acquire_tile returns false: the task is over *)
ThreadRunTaskDone ==
    /\ cl_pc = "tile_done"
    /\ cl_pc' = "idle"
    /\ UNCHANGED <<background, current_clos_max, budget_clos_max,
                   allocated_clos_max>>
    /\ UNCHANGED first_tile
    /\ UNCHANGED aroundClosureVars

NextClosure ==
    \/ SplitLoadKernels
    \/ ThreadRunCheckFeasibility
    \/ PathTraceAllocateClosures
    \/ ThreadRunNextTile
    \/ ThreadRunTaskDone

SpecClosure == InitClosure /\ [][NextClosure]_vars

(* C31: every tile is budgeted and run with per-work-item structures for   *)
(* the closure count of the loaded kernels.  After any load_kernels and    *)
(* path_trace calls, the closure count of the per-work-item footprint of   *)
(* the task and the closure count the closure arrays in use were allocated *)
(* with are current_clos_max.                                              *)
C31_StructuresMatchClosureCount ==
    cl_pc = "tile_done" =>
        /\ budget_clos_max = current_clos_max
        /\ allocated_clos_max = current_clos_max

====
